---- MODULE Spec2Model ----
(***************************************************************************)
(* A model of pcc, the PIGS C compiler (src/pcc.py): the lowering of a     *)
(* small C dialect to assembly buffers (AstCompiler), the buffer passes    *)
(* (AsmBuffer.drop_unused_tags, reduce, bind_tags, collect_vm_variables),  *)
(* the link pass of pcc() and the emulated logical helpers run on the VM.  *)
(***************************************************************************)
EXTENDS Integers, Sequences, FiniteSets, TLC

(***************************************************************************)
(* Bounds of the model.                                                    *)
(***************************************************************************)
\* total number of statements in the bodies of f, g and main of one program
MaxStmts == 2

\* the elements of a sequence
Range(seq) == {seq[i] : i \in DOMAIN seq}

(***************************************************************************)
(* Operands and statements (AsmVar, AsmTag, AsmCmd, AsmBranchCmd).         *)
(* An AsmTag / AsmVar object is identified by the function that owns it    *)
(* and a serial number / a name; a str or int operand is a literal.        *)
(***************************************************************************)
AsmTag(fn, n) == [kind |-> "tag", fn |-> fn, n |-> n, name |-> ""]

AsmVar(fn, name) == [kind |-> "var", fn |-> fn, n |-> 0, name |-> name]

\* an int or str operand whose text is name followed by the number n
Lit(n) == [kind |-> "lit", fn |-> "", n |-> n, name |-> ""]

Reg(k) == [kind |-> "lit", fn |-> "", n |-> k, name |-> "v"]

\* a str operand that is one letter; its number is not part of the text
Chr(c) == [kind |-> "chr", fn |-> "", n |-> 0, name |-> c]

SCR0 == Reg(0)

NoTag == [kind |-> "none", fn |-> "", n |-> 0, name |-> ""]

TagInstrs == <<"TAG", "CALL", "JMP", "JNZ", "JZ", "JP", "JM">>

\* AsmCmd.tag_instr_idx: index in the tuple, -1 when absent
tag_instr_idx(instr) ==
    IF \E i \in 1..Len(TagInstrs) : TagInstrs[i] = instr
    THEN (CHOOSE i \in 1..Len(TagInstrs) : TagInstrs[i] = instr) - 1
    ELSE -1

Stmt(instr, args) == [op |-> instr, args |-> args]

IsTag(s) == s.op = "TAG"

IsCmd(s) == s.op # "TAG"

IsBranch(s) == tag_instr_idx(s.op) > 0

\* AsmBuffer.__call__: append one statement
Emit(buf, instr, args) == Append(buf, Stmt(instr, args))

(***************************************************************************)
(* AsmBuffer passes.                                                       *)
(***************************************************************************)
\* AsmBuffer._replace_tag over a list of statements
ReplaceTag(buf, find_tag, replace_tag) ==
    [i \in DOMAIN buf |->
        IF IsBranch(buf[i]) /\ buf[i].args[1] = find_tag
        THEN [buf[i] EXCEPT !.args = <<replace_tag>>]
        ELSE buf[i]]

\* One iteration of the loop of AsmBuffer.reduce on curr_stmt = Head(rest).
\* _replace_tag rewrites the statement objects of the input buffer, which
\* are shared with out_buf and with the statements still to come.
ReduceStep(out, rest) ==
    LET curr == Head(rest)
        prev == out[Len(out)]
        tail == Tail(rest)
        keep == [out |-> out, rest |-> tail]
        drop_last == SubSeq(out, 1, Len(out) - 1)
    IN  IF IsCmd(prev) /\ IsCmd(curr)
        THEN IF \/ prev.op = "RET" /\ curr.op = "RET"
                \/ prev.op = "JMP" /\ curr.op = "JMP"
                \/ /\ prev.op = "STA" /\ curr.op = "LDA"
                   /\ prev.args[1] = curr.args[1]
             THEN keep
             ELSE [out |-> Append(out, curr), rest |-> tail]
        ELSE IF IsTag(prev) /\ IsTag(curr)
        THEN [out |-> ReplaceTag(out, curr.args[1], prev.args[1]),
              rest |-> ReplaceTag(tail, curr.args[1], prev.args[1])]
        ELSE IF IsTag(prev) /\ IsCmd(curr) /\ curr.op = "JMP"
        THEN IF Len(out) > 2 /\ IsCmd(out[Len(out) - 1]) /\ out[Len(out) - 1].op = "JMP"
             THEN [out |-> ReplaceTag(drop_last, prev.args[1], curr.args[1]),
                   rest |-> ReplaceTag(tail, prev.args[1], curr.args[1])]
             ELSE [out |-> ReplaceTag(Append(drop_last, curr), prev.args[1], curr.args[1]),
                   rest |-> ReplaceTag(tail, prev.args[1], curr.args[1])]
        ELSE IF /\ IsCmd(prev) /\ IsTag(curr)
                /\ prev.op = "JMP" /\ prev.args[1] = curr.args[1]
        THEN [out |-> Append(drop_last, curr), rest |-> tail]
        ELSE [out |-> Append(out, curr), rest |-> tail]

RECURSIVE ReduceLoop(_, _)
ReduceLoop(out, rest) ==
    IF rest = <<>> THEN out
    ELSE LET r == ReduceStep(out, rest) IN ReduceLoop(r.out, r.rest)

\* AsmBuffer.reduce (the buffer is never empty when the link pass calls it)
reduce(buf) == ReduceLoop(<<buf[1]>>, Tail(buf))

\* drop_unused_tags as it would count without the seeds of its caller
BranchUseCount(buf, tag_use_count, tag) ==
    Cardinality({i \in DOMAIN buf : IsBranch(buf[i]) /\ buf[i].args[1] = tag})

\* the use count drop_unused_tags ends with for one tag
TagUseCount(buf, tag_use_count, tag) ==
    (IF tag \in DOMAIN tag_use_count THEN tag_use_count[tag] ELSE 0)
    + Cardinality({i \in DOMAIN buf : IsBranch(buf[i]) /\ buf[i].args[1] = tag})

\* AsmBuffer.drop_unused_tags
drop_unused_tags(buf, tag_use_count) ==
    SelectSeq(buf, LAMBDA s : ~IsTag(s) \/ TagUseCount(buf, tag_use_count, s.args[1]) # 0)

(***************************************************************************)
(* EmulatedInstrs: the helper routines of the instructions the classic     *)
(* instruction set lacks.  The AsmTag objects of the helper of instr are   *)
(* identified by instr and a serial number, the entry tag being number 0.  *)
(***************************************************************************)
\* the ANDL definition as it would be without the second OR 0, the flag being
\* taken to follow the accumulator
ANDL_without_flag_refresh ==
    <<Stmt("OR", <<Lit(0)>>),
      Stmt("JZ", <<AsmTag("ANDL", 1)>>),
      Stmt("LDA", <<SCR0>>),
      Stmt("JZ", <<AsmTag("ANDL", 1)>>),
      Stmt("LDA", <<Lit(1)>>),
      Stmt("TAG", <<AsmTag("ANDL", 1)>>)>>

\* EmulatedInstrs._compile_ANDL_definition
compile_ANDL_definition ==
    <<Stmt("OR", <<Lit(0)>>),
      Stmt("JZ", <<AsmTag("ANDL", 1)>>),
      Stmt("LDA", <<SCR0>>),
      Stmt("OR", <<Lit(0)>>),
      Stmt("JZ", <<AsmTag("ANDL", 1)>>),
      Stmt("LDA", <<Lit(1)>>),
      Stmt("TAG", <<AsmTag("ANDL", 1)>>)>>

\* EmulatedInstrs._compile_NOTL_definition
compile_NOTL_definition ==
    <<Stmt("OR", <<Lit(0)>>),
      Stmt("JZ", <<AsmTag("NOTL", 1)>>),
      Stmt("LDA", <<Lit(0)>>),
      Stmt("RET", <<>>),
      Stmt("TAG", <<AsmTag("NOTL", 1)>>),
      Stmt("LDA", <<Lit(1)>>)>>

\* EmulatedInstrs._compile_ORL_definition
compile_ORL_definition ==
    <<Stmt("OR", <<SCR0>>),
      Stmt("JNZ", <<AsmTag("ORL", 1)>>),
      Stmt("RET", <<>>),
      Stmt("TAG", <<AsmTag("ORL", 1)>>),
      Stmt("LDA", <<Lit(1)>>)>>

\* the tail shared by the relational helpers: LDA 0; RET; TAG true_tag; LDA 1
ReturnZeroElseOne(instr) ==
    <<Stmt("LDA", <<Lit(0)>>),
      Stmt("RET", <<>>),
      Stmt("TAG", <<AsmTag(instr, 1)>>),
      Stmt("LDA", <<Lit(1)>>)>>

\* EmulatedInstrs._compile_EQ_definition .. _compile_LE_definition
compile_relational_definition(instr) ==
    CASE instr = "EQ" ->
           <<Stmt("CMP", <<SCR0>>), Stmt("JZ", <<AsmTag(instr, 1)>>)>>
           \o ReturnZeroElseOne(instr)
      [] instr = "NE" ->
           <<Stmt("CMP", <<SCR0>>), Stmt("JNZ", <<AsmTag(instr, 1)>>)>>
           \o ReturnZeroElseOne(instr)
      [] instr = "GT" ->
           <<Stmt("CMP", <<SCR0>>),
             Stmt("JZ", <<AsmTag(instr, 1)>>),
             Stmt("JM", <<AsmTag(instr, 1)>>),
             Stmt("LDA", <<Lit(1)>>),
             Stmt("RET", <<>>),
             Stmt("TAG", <<AsmTag(instr, 1)>>),
             Stmt("LDA", <<Lit(0)>>)>>
      [] instr = "GE" ->
           <<Stmt("CMP", <<SCR0>>), Stmt("JP", <<AsmTag(instr, 1)>>)>>
           \o ReturnZeroElseOne(instr)
      [] instr = "LT" ->
           <<Stmt("CMP", <<SCR0>>), Stmt("JM", <<AsmTag(instr, 1)>>)>>
           \o ReturnZeroElseOne(instr)
      [] instr = "LE" ->
           <<Stmt("CMP", <<SCR0>>),
             Stmt("JZ", <<AsmTag(instr, 1)>>),
             Stmt("JM", <<AsmTag(instr, 1)>>)>>
           \o ReturnZeroElseOne(instr)

\* EmulatedInstrs.compile: the buffer of one emulated instruction
InstrFunc(instr) ==
    <<Stmt("TAG", <<AsmTag(instr, 0)>>)>>
    \o (IF instr = "NOTL" THEN compile_NOTL_definition
        ELSE IF instr = "ANDL" THEN compile_ANDL_definition
        ELSE IF instr = "ORL" THEN compile_ORL_definition
        ELSE compile_relational_definition(instr))
    \o <<Stmt("RET", <<>>)>>

\* EmulatedInstrs.EMULATED_INSTR: the names of the emulated instructions
EMULATED_INSTR == {"NEG", "NOT", "NOTL", "ANDL", "ORL", "EQ", "NE", "GT", "GE", "LT", "LE"}

INLINED_INSTR == {"NEG", "NOT"}

\* drop_caller as it would be if the helper routines were never dropped
keep_helpers(instr_funcs, func_names_dropped) == instr_funcs

\* EmulatedInstrs.drop_caller on instr_funcs, a sequence in dict order of
\* the emulated instructions materialized, each with its caller set
drop_caller(instr_funcs, func_names_dropped) ==
    SelectSeq([i \in DOMAIN instr_funcs |->
                  [instr_funcs[i] EXCEPT !.caller = @ \ func_names_dropped]],
              LAMBDA f : f.caller # {})

\* EmulatedInstrs.asm_bufs
em_asm_bufs(instr_funcs) == [i \in DOMAIN instr_funcs |-> InstrFunc(instr_funcs[i].instr)]

(***************************************************************************)
(* The C dialect: the AST nodes the model feeds to the compiler.  An       *)
(* expression is a term (an integer constant or an identifier) or a simple *)
(* assignment.                                                             *)
(***************************************************************************)
NoNode == [k |-> "None"]

Constant(value) == [k |-> "Constant", value |-> value]

ID(name) == [k |-> "ID", name |-> name]

FuncCall(name, args) == [k |-> "FuncCall", name |-> name, args |-> args]

Assignment(lvalue, rvalue) == [k |-> "Assignment", name |-> lvalue, init |-> rvalue]

\* declaration of an int variable, with or without initialiser
Decl(name, init) == [k |-> "Decl", name |-> name, init |-> init]

\* declaration (prototype) of a user function with nargs int arguments
FuncDecl(name, nargs) ==
    [k |-> "FuncDecl", name |-> name, nargs |-> nargs, extern |-> FALSE]

\* declaration of a function with storage class extern, as vm_api.h has them
ExternDecl(name, nargs) ==
    [k |-> "FuncDecl", name |-> name, nargs |-> nargs, extern |-> TRUE]

FuncDef(name, params, body) ==
    [k |-> "FuncDef", name |-> name, params |-> params, body |-> body]

Compound(block_items) == [k |-> "Compound", items |-> block_items]

If(cond, iftrue, iffalse) ==
    [k |-> "If", cond |-> cond, iftrue |-> iftrue, iffalse |-> iffalse]

While(cond, stmt) == [k |-> "While", cond |-> cond, stmt |-> stmt]

For(cond, stmt) == [k |-> "For", cond |-> cond, stmt |-> stmt]

Break == [k |-> "Break"]

Continue == [k |-> "Continue"]

Return(expr) == [k |-> "Return", expr |-> expr]

EmptyStatement == [k |-> "EmptyStatement"]

DoWhile(cond, stmt) == [k |-> "DoWhile", cond |-> cond, stmt |-> stmt]

\* the operators '+', '-', '~', '!' applied to an expression
UnaryOp(op, expr) == [k |-> "UnaryOp", uop |-> op, expr |-> expr]

BinaryOp(op, left, right) == [k |-> "BinaryOp", bop |-> op, left |-> left, right |-> right]

(***************************************************************************)
(* AstCompiler.  cc is the compiler object: its fields are the fields of   *)
(* the Python object, error_count is log.error_count, raised says that an  *)
(* exception is propagating, crashed names the logger call that raised it  *)
(* if it is not a PccError, and ret holds the value the last               *)
(* compile_statement returned.                                             *)
(***************************************************************************)
\* UserDefFunction.__init__: asm_tag is the first AsmTag the function owns
UserDefFunction(name, nargs) ==
    [func_name |-> name, arg_count |-> nargs, is_vm |-> FALSE, impl_node |-> FALSE,
     caller |-> {}, asm_tag |-> AsmTag(name, 0), asm_buf |-> <<>>, ntags |-> 1,
     has_return |-> FALSE]

\* VmApiFunction.__init__: no tag, no buffer, never implemented; the gpio
\* functions are declared int, exit is declared void
VmApiFunction(name, nargs) ==
    [func_name |-> name, arg_count |-> nargs, is_vm |-> TRUE, impl_node |-> FALSE,
     caller |-> {}, asm_tag |-> NoTag, asm_buf |-> <<>>, ntags |-> 0,
     has_return |-> name # "exit"]

\* VmApiFunction.VM_FUNCTION_INSTR_CIS: the entries of the functions called
VM_FUNCTION_INSTR_CIS ==
    ("gpioSetMode" :> "MODES") @@ ("gpioSetPullUpDown" :> "PUD")
    @@ ("gpioRead" :> "READ") @@ ("gpioWrite" :> "WRITE") @@ ("exit" :> "HALT")

\* VmApiFunction.asm_repr: the instruction, "" where it raises PccError
asm_repr(use_cis, func_name) ==
    IF ~use_cis /\ func_name = "gpioSetMode" THEN "MI"
    ELSE IF ~use_cis /\ func_name = "gpioSetPullUpDown" THEN "PUDI"
    ELSE IF func_name \notin DOMAIN VM_FUNCTION_INSTR_CIS THEN ""
    ELSE VM_FUNCTION_INSTR_CIS[func_name]

\* VmApiFunction._map_argument_cis_gpioSetMode, _map_argument_cis_gpioSetPullUpDown
\* for a constant: 'RW540123'[const_int] and 'ODU'[const_int]
map_argument(func_name, i_arg, const_arg) ==
    IF i_arg = 1 /\ func_name = "gpioSetMode" /\ const_arg.n \in 0..7
    THEN <<Chr("R"), Chr("W"), Lit(5), Lit(4), Lit(0), Lit(1), Lit(2), Lit(3)>>[const_arg.n + 1]
    ELSE IF i_arg = 1 /\ func_name = "gpioSetPullUpDown" /\ const_arg.n \in 0..2
    THEN <<Chr("O"), Chr("D"), Chr("U")>>[const_arg.n + 1]
    ELSE const_arg

\* UserDefFunction.arg_vars[i]
ArgVar(fn, i) == [kind |-> "var", fn |-> fn, n |-> i, name |-> ".arg"]

VarSym(cname, asm_var) == [cname |-> cname, kind |-> "var", asm |-> asm_var]

FuncSym(cname) == [cname |-> cname, kind |-> "func", asm |-> AsmTag(cname, 0)]

\* AstCompiler.__init__
NewAstCompiler(use_cis) ==
    [use_cis |-> use_cis,
     functions |-> <<>>,
     init_asm_buf |-> <<>>,
     asm_out |-> ".init",
     scope |-> <<{}>>,
     context_function |-> "",
     loop_tag_stack |-> <<>>,
     loop_continue_tag |-> NoTag,
     loop_break_tag |-> NoTag,
     in_expression |-> FALSE,
     em_instrs |-> <<>>,
     error_count |-> 0,
     raised |-> FALSE,
     crashed |-> "",
     ret |-> FALSE]

\* the functions dict keeps insertion order: a sequence of UserDefFunction
FuncNames(functions) == {functions[i].func_name : i \in DOMAIN functions}

FuncIdx(functions, name) == CHOOSE i \in DOMAIN functions : functions[i].func_name = name

Func(cc, name) == cc.functions[FuncIdx(cc.functions, name)]

\* self.asm_out(instr, *args)
Out(cc, instr, args) ==
    IF cc.asm_out = ".init"
    THEN [cc EXCEPT !.init_asm_buf = Emit(@, instr, args)]
    ELSE [cc EXCEPT !.functions[FuncIdx(cc.functions, cc.asm_out)].asm_buf =
                        Emit(@, instr, args)]

\* a new AsmTag() made while lowering the body of the context function
NextTag(cc) == AsmTag(cc.context_function, Func(cc, cc.context_function).ntags)

TakeTag(cc) ==
    [cc EXCEPT !.functions[FuncIdx(cc.functions, cc.context_function)].ntags = @ + 1]

Raise(cc) == [cc EXCEPT !.raised = TRUE]

\* PccLogger._log_message for a node of the source files: it calls
\* NON_WHITESPACE_PATTERN.sub with one argument, which raises a TypeError
\* before anything is printed
log_message(cc, what) == [cc EXCEPT !.raised = TRUE, !.crashed = what]

\* PccLogger.error of a PccError with a node: error_count += 1 is not reached
LogError(cc) == log_message(cc, "error")

\* PccLogger.warning
LogWarning(cc) == log_message(cc, "warning")

\* except PccError as e: self.log.error(e); other exceptions pass through
HandleError(c1) == IF c1.raised /\ c1.crashed = "" THEN LogError(c1) ELSE c1

push_scope(cc) == [cc EXCEPT !.scope = <<{}>> \o @]

\* ChainMap.parents: the chain without its first frame; the parents of a
\* chain of one frame are a chain of one new, empty frame
pop_scope(cc) == [cc EXCEPT !.scope = IF Len(@) = 1 THEN <<{}>> ELSE Tail(@)]

push_loop_tags(cc, begin_tag, end_tag) ==
    [cc EXCEPT !.loop_tag_stack = Append(@, <<cc.loop_continue_tag, cc.loop_break_tag>>),
               !.loop_continue_tag = begin_tag,
               !.loop_break_tag = end_tag]

\* pop_loop_tags as it would be if the stack were popped and the tags of the
\* loop that is left stayed current
pop_loop_tags_stale(cc) ==
    [cc EXCEPT !.loop_tag_stack = SubSeq(@, 1, Len(@) - 1)]

pop_loop_tags(cc) ==
    LET top == cc.loop_tag_stack[Len(cc.loop_tag_stack)]
    IN  [cc EXCEPT !.loop_tag_stack = SubSeq(@, 1, Len(@) - 1),
                   !.loop_continue_tag = top[1],
                   !.loop_break_tag = top[2]]

\* ChainMap lookup: the innermost frame that holds cname
HasSymbol(scope, cname, kind) ==
    \E i \in DOMAIN scope :
        /\ \E s \in scope[i] : s.cname = cname
        /\ \A j \in 1..(i - 1) : \A s \in scope[j] : s.cname # cname
        /\ \E s \in scope[i] : s.cname = cname /\ s.kind = kind

find_symbol(scope, cname) ==
    LET i == CHOOSE j \in DOMAIN scope :
                 /\ \E s \in scope[j] : s.cname = cname
                 /\ \A l \in 1..(j - 1) : \A s \in scope[l] : s.cname # cname
    IN  CHOOSE s \in scope[i] : s.cname = cname

\* bind_symbol as it would be if a name bound in any open frame could not
\* be bound again
bind_symbol_chain(cc, sym) ==
    IF \E i \in DOMAIN cc.scope : \E s \in cc.scope[i] : s.cname = sym.cname
    THEN Raise(cc)
    ELSE [cc EXCEPT !.scope[1] = @ \cup {sym}]

\* AstCompiler.bind_symbol
bind_symbol(cc, sym) ==
    IF \E s \in cc.scope[1] : s.cname = sym.cname
    THEN Raise(cc)
    ELSE [cc EXCEPT !.scope[1] = @ \cup {sym}]

\* AstCompiler.declare_variable
declare_variable(cc, cname, asm_var) == bind_symbol(cc, VarSym(cname, asm_var))

\* AstCompiler.declare_function, for prototypes that agree
declare_function(cc, name, nargs, is_vm_function) ==
    IF HasSymbol(cc.scope, name, "func") THEN cc
    ELSE bind_symbol(IF name \in FuncNames(cc.functions) THEN cc
                     ELSE [cc EXCEPT !.functions =
                              Append(@, IF is_vm_function THEN VmApiFunction(name, nargs)
                                        ELSE UserDefFunction(name, nargs))],
                     FuncSym(name))

\* AstCompiler.try_parse_constant finds a constant: an int literal or the
\* negation of one
IsConstant(node) ==
    \/ node.k = "Constant"
    \/ node.k = "UnaryOp" /\ node.uop = "-" /\ node.expr.k = "Constant"

\* AstCompiler.try_parse_term finds a term or raises, rather than returning None
IsTermNode(node) == IsConstant(node) \/ node.k = "ID"

\* AstCompiler.try_parse_term applied to a term known to be valid
TermOf(cc, node) ==
    IF node.k = "Constant" THEN Lit(node.value)
    ELSE IF node.k = "UnaryOp" THEN Lit(0 - node.expr.value)
    ELSE find_symbol(cc.scope, node.name).asm

TermOk(cc, node) == IsConstant(node) \/ HasSymbol(cc.scope, node.name, "var")

\* instr_func.caller.add(func_name), after EmulatedInstrs.compile has made
\* the InstrFunc of an instruction met for the first time
AddCaller(instr_funcs, instr, func_name) ==
    IF \E i \in DOMAIN instr_funcs : instr_funcs[i].instr = instr
    THEN [i \in DOMAIN instr_funcs |->
             IF instr_funcs[i].instr = instr
             THEN [instr_funcs[i] EXCEPT !.caller = @ \cup {func_name}]
             ELSE instr_funcs[i]]
    ELSE Append(instr_funcs, [instr |-> instr, caller |-> {func_name}])

\* EmulatedInstrs.compile as it would be if no instruction were written in
\* place: a CALL of the helper routine for NEG and NOT as well
em_compile_call(cc, instr) ==
    Out([cc EXCEPT !.em_instrs =
             AddCaller(@, instr, IF cc.context_function = "" THEN ".init"
                                 ELSE cc.context_function)],
        "CALL", <<AsmTag(instr, 0)>>)

\* EmulatedInstrs.compile: NEG and NOT are written in place, every other
\* instruction becomes a CALL of its helper routine
em_compile(cc, instr) ==
    IF instr = "NEG"
    THEN Out(Out(cc, "XOR", <<Chr("0xffffffff")>>), "ADD", <<Lit(1)>>)
    ELSE IF instr = "NOT"
    THEN Out(cc, "XOR", <<Chr("0xffffffff")>>)
    ELSE Out([cc EXCEPT !.em_instrs =
                  AddCaller(@, instr, IF cc.context_function = "" THEN ".init"
                                      ELSE cc.context_function)],
             "CALL", <<AsmTag(instr, 0)>>)

RECURSIVE compile_statement(_, _)

\* AstCompiler.compile_expression
compile_expression(cc, node) ==
    IF IsTermNode(node)
    THEN IF ~TermOk(cc, node) THEN Raise(cc)
         ELSE Out(cc, IF cc.use_cis THEN "LDA" ELSE "LDAF", <<TermOf(cc, node)>>)
    ELSE IF node.k \in {"UnaryOp", "BinaryOp", "Assignment", "FuncCall"}
    THEN [compile_statement([cc EXCEPT !.in_expression = TRUE], node)
             EXCEPT !.in_expression = cc.in_expression]
    ELSE Raise(cc)

\* compile_assignment after compile_expression (c1): STA dst_reg
StoreA(c1, dst_reg) == IF c1.raised THEN c1 ELSE Out(c1, "STA", <<dst_reg>>)

\* AstCompiler.compile_assignment, simple assignment
compile_assignment(cc, dst_reg, rhs_node) ==
    IF ~IsTermNode(rhs_node)
    THEN StoreA(compile_expression(cc, rhs_node), dst_reg)
    ELSE IF ~TermOk(cc, rhs_node) THEN Raise(cc)
    ELSE IF cc.in_expression
    THEN Out(Out(cc, "LD", <<dst_reg, TermOf(cc, rhs_node)>>),
             IF cc.use_cis THEN "LDA" ELSE "LDAF", <<dst_reg>>)
    ELSE Out(cc, "LD", <<dst_reg, TermOf(cc, rhs_node)>>)

\* the loop of _compile_FuncCall_node over the arguments of a user function
RECURSIVE AssignArgs(_, _, _, _)
AssignArgs(cc, fn, args, i) ==
    IF i > Len(args) \/ cc.raised THEN cc
    ELSE AssignArgs(compile_assignment(cc, ArgVar(fn, i), args[i]), fn, args, i + 1)

\* _compile_FuncCall_node after the arguments (c2): the CALL
CallEnd(c2, asm_tag) ==
    IF c2.raised THEN c2 ELSE [Out(c2, "CALL", <<asm_tag>>) EXCEPT !.ret = FALSE]

\* _compile_FuncCall_node, VM API function, after the arguments: asm_repr()
\* and the instruction; exit() returns
ApiCallEnd(cc, func_name, asm_args) ==
    IF asm_repr(cc.use_cis, func_name) = "" THEN Raise(cc)
    ELSE [Out(cc, asm_repr(cc.use_cis, func_name), asm_args)
             EXCEPT !.ret = asm_repr(cc.use_cis, func_name) = "HALT"]

\* the loop of _compile_FuncCall_node over the arguments of a VM API function:
\* args[i] is argument i_arg = i - 1
RECURSIVE ApiArgs(_, _, _, _)
ApiArgs(cc, node, i, asm_args) ==
    IF cc.raised THEN cc
    ELSE IF i > Len(node.args) THEN ApiCallEnd(cc, node.name, asm_args)
    ELSE IF IsConstant(node.args[i])
    THEN ApiArgs(cc, node, i + 1,
                 Append(asm_args,
                        IF cc.use_cis THEN map_argument(node.name, i - 1, TermOf(cc, node.args[i]))
                        ELSE TermOf(cc, node.args[i])))
    ELSE IF cc.use_cis /\ i = 2 /\ node.name \in {"gpioSetMode", "gpioSetPullUpDown"}
    THEN Raise(cc)
    ELSE IF node.args[i].k = "ID"
    THEN IF ~TermOk(cc, node.args[i]) THEN Raise(cc)
         ELSE ApiArgs(cc, node, i + 1, Append(asm_args, TermOf(cc, node.args[i])))
    ELSE ApiArgs(compile_assignment(cc, Reg(i), node.args[i]), node, i + 1,
                 Append(asm_args, Reg(i)))

\* AstCompiler._compile_FuncCall_node
compile_FuncCall_node(cc, node) ==
    IF ~HasSymbol(cc.scope, node.name, "func") THEN Raise(cc)
    ELSE IF cc.in_expression /\ ~Func(cc, node.name).has_return THEN Raise(cc)
    ELSE IF Func(cc, node.name).arg_count # Len(node.args) THEN Raise(cc)
    ELSE IF Func(cc, node.name).is_vm THEN ApiArgs(cc, node, 1, <<>>)
    ELSE CallEnd(AssignArgs(IF node.name # cc.context_function
                            THEN [cc EXCEPT !.functions[FuncIdx(cc.functions, node.name)].caller =
                                                @ \cup {cc.context_function}]
                            ELSE cc,
                            node.name, node.args, 1),
                 Func(cc, node.name).asm_tag)

\* AstCompiler.UNARY_OP_INSTR; "" stands for None
UNARY_OP_INSTR == ("+" :> "") @@ ("-" :> "NEG") @@ ("~" :> "NOT") @@ ("!" :> "NOTL")

\* _compile_UnaryOp_node after compile_expression (c1)
UnaryEnd(c1, op_instr) ==
    IF c1.raised THEN c1
    ELSE [(IF op_instr = "" THEN c1
           ELSE IF c1.use_cis THEN em_compile(c1, op_instr)
           ELSE Out(c1, op_instr, <<>>)) EXCEPT !.ret = FALSE]

\* AstCompiler._compile_UnaryOp_node, the operators of UNARY_OP_INSTR
compile_UnaryOp_node(cc, node) ==
    IF node.uop \notin DOMAIN UNARY_OP_INSTR THEN Raise(cc)
    ELSE UnaryEnd(compile_expression(cc, node.expr), UNARY_OP_INSTR[node.uop])

\* AstCompiler.BINARY_OP_INSTR
BINARY_OP_INSTR ==
    ("+" :> "ADD") @@ ("-" :> "SUB") @@ ("*" :> "MLT") @@ ("/" :> "DIV") @@ ("%" :> "MOD")
    @@ ("&" :> "AND") @@ ("|" :> "OR") @@ ("^" :> "XOR") @@ ("<<" :> "RLA") @@ (">>" :> "RRA")
    @@ ("&&" :> "ANDL") @@ ("||" :> "ORL") @@ ("==" :> "EQ") @@ ("!=" :> "NE")
    @@ (">" :> "GT") @@ (">=" :> "GE") @@ ("<" :> "LT") @@ ("<=" :> "LE")

\* the last step of _compile_BinaryOp_node: the operator applied to operand x
BinaryOpOut(cc, op_instr, x) ==
    [(IF cc.use_cis /\ op_instr \in EMULATED_INSTR THEN em_compile(cc, op_instr)
      ELSE Out(cc, op_instr, <<x>>)) EXCEPT !.ret = FALSE]

\* _compile_BinaryOp_node after the right-hand side that is not a term (c2)
BinaryEnd(c2, op_instr) ==
    IF c2.raised THEN c2
    ELSE BinaryOpOut(Out(Out(c2, "STA", <<SCR0>>), "POPA", <<>>), op_instr, SCR0)

\* _compile_BinaryOp_node after the left-hand side (c1)
BinaryRhs(c1, node, op_instr) ==
    IF c1.raised THEN c1
    ELSE IF ~IsTermNode(node.right)
    THEN BinaryEnd(compile_expression(Out(c1, "PUSHA", <<>>), node.right), op_instr)
    ELSE IF ~TermOk(c1, node.right) THEN Raise(c1)
    ELSE IF c1.use_cis /\ op_instr \in EMULATED_INSTR
    THEN BinaryOpOut(Out(c1, "LD", <<SCR0, TermOf(c1, node.right)>>), op_instr, SCR0)
    ELSE BinaryOpOut(c1, op_instr, TermOf(c1, node.right))

\* AstCompiler._compile_BinaryOp_node
compile_BinaryOp_node(cc, node) ==
    IF node.bop \notin DOMAIN BINARY_OP_INSTR THEN Raise(cc)
    ELSE BinaryRhs(compile_expression(cc, node.left), node, BINARY_OP_INSTR[node.bop])

\* AstCompiler._compile_Assignment_node
compile_Assignment_node(cc, node) ==
    IF ~HasSymbol(cc.scope, node.name, "var") THEN Raise(cc)
    ELSE [compile_assignment(cc, find_symbol(cc.scope, node.name).asm, node.init)
             EXCEPT !.ret = FALSE]

\* _compile_Decl_node as it would be if every declaration stored a value:
\* zero where the declaration has no initialiser
DeclInitZero(c1, asm_var, init) ==
    IF c1.raised THEN c1
    ELSE [compile_assignment(c1, asm_var, IF init = NoNode THEN Constant(0) ELSE init)
             EXCEPT !.ret = FALSE]

\* _compile_Decl_node after declare_variable: the initialiser, if any
DeclInit(c1, asm_var, init) ==
    IF c1.raised THEN c1
    ELSE IF init = NoNode THEN [c1 EXCEPT !.ret = FALSE]
    ELSE [compile_assignment(c1, asm_var, init) EXCEPT !.ret = FALSE]

\* AstCompiler._compile_Decl_node: int variable or function prototype
compile_Decl_node(cc, node) ==
    IF node.k = "FuncDecl"
    THEN [declare_function(cc, node.name, node.nargs, node.extern) EXCEPT !.ret = FALSE]
    ELSE DeclInit(declare_variable(cc, node.name, AsmVar(cc.context_function, node.name)),
                  AsmVar(cc.context_function, node.name), node.init)

\* AstCompiler._compile_Return_node in a void function
compile_Return_node(cc, node) ==
    IF node.expr # NoNode THEN LogWarning(cc)
    ELSE [Out(cc, "RET", <<>>) EXCEPT !.ret = TRUE]

\* AstCompiler._compile_Continue_node
compile_Continue_node(cc, node) ==
    IF cc.loop_continue_tag = NoTag THEN Raise(cc)
    ELSE [Out(cc, "JMP", <<cc.loop_continue_tag>>) EXCEPT !.ret = FALSE]

\* AstCompiler._compile_Break_node
compile_Break_node(cc, node) ==
    IF cc.loop_break_tag = NoTag THEN Raise(cc)
    ELSE [Out(cc, "JMP", <<cc.loop_break_tag>>) EXCEPT !.ret = FALSE]

\* the conditional jump as it would be without the refresh of the flags
CondJumpBare(cc, instr, tag) == Out(cc, instr, <<tag>>)

\* the conditional jump after a condition: OR 0 first in classic mode
CondJump(cc, instr, tag) ==
    Out(IF cc.use_cis THEN Out(cc, "OR", <<Lit(0)>>) ELSE cc, instr, <<tag>>)

RECURSIVE CompoundLoop(_, _, _, _)

\* one block item has been lowered (c1): the except clause and the flags
CompoundNext(c1, items, returned) ==
    IF c1.raised
    THEN CompoundLoop(HandleError(c1), Tail(items), returned, FALSE)
    ELSE CompoundLoop(c1, Tail(items), returned \/ c1.ret,
                      c1.ret \/ Head(items).k \in {"Continue", "Break"})

\* the loop of _compile_Compound_node over block_items
CompoundLoop(cc, items, returned, in_unreachable_code) ==
    IF cc.raised THEN cc
    ELSE IF items = <<>> THEN [cc EXCEPT !.ret = returned]
    ELSE IF in_unreachable_code THEN LogWarning(cc)
    ELSE CompoundNext(compile_statement(cc, Head(items)), items, returned)

\* AstCompiler._compile_Compound_node
compile_Compound_node(cc, node) ==
    IF node.items = <<>> THEN [cc EXCEPT !.ret = FALSE]
    ELSE pop_scope(CompoundLoop(push_scope(cc), node.items, FALSE, FALSE))

\* _compile_If_node after the else branch (c5)
IfEnd(c5, endif_tag, r1) ==
    IF c5.raised THEN c5
    ELSE [Out(c5, "TAG", <<endif_tag>>) EXCEPT !.ret = r1 /\ c5.ret]

\* _compile_If_node after the if branch (c3)
IfElse(c3, node, else_tag, endif_tag) ==
    IF c3.raised THEN c3
    ELSE IF node.iffalse = NoNode
    THEN [Out(c3, "TAG", <<endif_tag>>) EXCEPT !.ret = FALSE]
    ELSE IfEnd(compile_statement(
                   Out(IF c3.ret THEN c3 ELSE Out(c3, "JMP", <<endif_tag>>),
                       "TAG", <<else_tag>>),
                   node.iffalse),
               endif_tag, c3.ret)

\* _compile_If_node after the condition (c1)
IfTrue(c1, node, else_tag, endif_tag) ==
    IF c1.raised THEN c1
    ELSE IfElse(compile_statement(
                    CondJump(c1, "JZ", IF node.iffalse # NoNode THEN else_tag ELSE endif_tag),
                    node.iftrue),
                node, else_tag, endif_tag)

\* _compile_If_node with the tags made: else_tag first, if there is an else
IfTags(c0, node, else_tag) ==
    IfTrue(compile_expression(TakeTag(c0), node.cond), node, else_tag, NextTag(c0))

\* AstCompiler._compile_If_node
compile_If_node(cc, node) ==
    IfTags(IF node.iffalse # NoNode THEN TakeTag(cc) ELSE cc, node, NextTag(cc))

\* a loop after its body (c2): the closing statements, then finally
LoopEnd(c2, closing) ==
    IF c2.raised THEN pop_loop_tags(c2)
    ELSE pop_loop_tags([c2 EXCEPT !.functions[FuncIdx(c2.functions, c2.asm_out)].asm_buf =
                                      @ \o closing])

\* _compile_While_node after the condition (c1)
WhileBody(c1, node, begin_tag, end_tag) ==
    IF c1.raised THEN pop_loop_tags(c1)
    ELSE LoopEnd(compile_statement(CondJump(c1, "JZ", end_tag), node.stmt),
                 <<Stmt("JMP", <<begin_tag>>), Stmt("TAG", <<end_tag>>)>>)

WhileTags(c0, node, begin_tag, end_tag) ==
    WhileBody(compile_expression(
                  Out(push_loop_tags(c0, begin_tag, end_tag), "TAG", <<begin_tag>>),
                  node.cond),
              node, begin_tag, end_tag)

\* AstCompiler._compile_While_node
compile_While_node(cc, node) ==
    WhileTags(TakeTag(TakeTag(cc)), node, NextTag(cc), NextTag(TakeTag(cc)))

\* _compile_DoWhile_node after the condition (c2)
DoWhileEnd(c2, returned, begin_tag, end_tag) ==
    IF c2.raised THEN pop_loop_tags(c2)
    ELSE [pop_loop_tags(Out(CondJump(c2, "JNZ", begin_tag), "TAG", <<end_tag>>))
             EXCEPT !.ret = returned]

\* _compile_DoWhile_node after the statement (c1)
DoWhileCond(c1, node, begin_tag, end_tag) ==
    IF c1.raised THEN pop_loop_tags(c1)
    ELSE DoWhileEnd(compile_expression(c1, node.cond), c1.ret, begin_tag, end_tag)

DoWhileTags(c0, node, begin_tag, end_tag) ==
    DoWhileCond(compile_statement(
                    Out(push_loop_tags(c0, begin_tag, end_tag), "TAG", <<begin_tag>>),
                    node.stmt),
                node, begin_tag, end_tag)

\* AstCompiler._compile_DoWhile_node
compile_DoWhile_node(cc, node) ==
    DoWhileTags(TakeTag(TakeTag(cc)), node, NextTag(cc), NextTag(TakeTag(cc)))

\* _compile_For_node after the condition (c2)
ForBody(c2, node, begin_tag, next_tag, end_tag) ==
    IF c2.raised THEN pop_loop_tags(c2)
    ELSE LoopEnd(compile_statement(
                     IF node.cond = NoNode THEN c2 ELSE CondJump(c2, "JZ", end_tag),
                     node.stmt),
                 <<Stmt("TAG", <<next_tag>>), Stmt("JMP", <<begin_tag>>),
                   Stmt("TAG", <<end_tag>>)>>)

\* _compile_For_node after TAG begin_tag (c1)
ForCond(c1, node, begin_tag, next_tag, end_tag) ==
    ForBody(IF node.cond = NoNode THEN c1 ELSE compile_expression(c1, node.cond),
            node, begin_tag, next_tag, end_tag)

ForTags(c0, node, begin_tag, next_tag, end_tag) ==
    ForCond(Out(push_loop_tags(c0, next_tag, end_tag), "TAG", <<begin_tag>>),
            node, begin_tag, next_tag, end_tag)

\* AstCompiler._compile_For_node without init clause and iteration expression
compile_For_node(cc, node) ==
    ForTags(TakeTag(TakeTag(TakeTag(cc))), node,
            NextTag(cc), NextTag(TakeTag(cc)), NextTag(TakeTag(TakeTag(cc))))

\* the loop of _compile_FuncDef_node that declares the arguments
RECURSIVE DeclareArgs(_, _, _, _)
DeclareArgs(cc, fn, params, i) ==
    IF i > Len(params) \/ cc.raised THEN cc
    ELSE DeclareArgs(declare_variable(cc, params[i], ArgVar(fn, i)), fn, params, i + 1)

\* the end of _compile_FuncDef_node as it would be without the finally
\* block: an error leaves the function context as it is
FuncDefEndNoFinally(c5) ==
    IF c5.raised THEN HandleError(c5)
    ELSE [pop_scope(IF c5.ret THEN c5 ELSE Out(c5, "RET", <<>>))
             EXCEPT !.asm_out = ".init", !.context_function = "", !.ret = FALSE]

\* _compile_FuncDef_node: the end of the try block (c5), except and finally
FuncDefEnd(c5) ==
    [pop_scope(IF c5.raised THEN HandleError(c5)
               ELSE IF c5.ret THEN c5 ELSE Out(c5, "RET", <<>>))
        EXCEPT !.asm_out = ".init", !.context_function = "", !.ret = FALSE]

\* _compile_FuncDef_node: the body, after the arguments are declared (c4)
FuncDefBody(c4, node) ==
    FuncDefEnd(IF c4.raised THEN c4 ELSE compile_Compound_node(c4, node.body))

\* _compile_FuncDef_node: the function context is entered (c2)
FuncDefEnter(c2, node) ==
    FuncDefBody(DeclareArgs(IF node.name # "main"
                            THEN Out(c2, "TAG", <<Func(c2, node.name).asm_tag>>)
                            ELSE c2,
                            node.name, node.params, 1),
                node)

\* _compile_FuncDef_node after declare_function (c1)
FuncDefDeclared(c1, node) ==
    IF c1.raised THEN c1
    ELSE IF Func(c1, node.name).impl_node THEN Raise(c1)
    ELSE FuncDefEnter(
             push_scope([c1 EXCEPT !.functions[FuncIdx(c1.functions, node.name)].impl_node = TRUE,
                                   !.context_function = node.name,
                                   !.asm_out = node.name]),
             node)

\* AstCompiler._compile_FuncDef_node
compile_FuncDef_node(cc, node) ==
    FuncDefDeclared(declare_function(cc, node.name, Len(node.params), FALSE), node)

\* AstCompiler.compile_statement: dispatch on the class of the AST node
compile_statement(cc, node) ==
    CASE node.k = "FuncDef" -> compile_FuncDef_node(cc, node)
      [] node.k \in {"Decl", "FuncDecl"} -> compile_Decl_node(cc, node)
      [] node.k = "FuncCall" -> compile_FuncCall_node(cc, node)
      [] node.k = "Assignment" -> compile_Assignment_node(cc, node)
      [] node.k = "Compound" -> compile_Compound_node(cc, node)
      [] node.k = "If" -> compile_If_node(cc, node)
      [] node.k = "UnaryOp" -> compile_UnaryOp_node(cc, node)
      [] node.k = "BinaryOp" -> compile_BinaryOp_node(cc, node)
      [] node.k = "While" -> compile_While_node(cc, node)
      [] node.k = "DoWhile" -> compile_DoWhile_node(cc, node)
      [] node.k = "For" -> compile_For_node(cc, node)
      [] node.k = "Return" -> compile_Return_node(cc, node)
      [] node.k = "Continue" -> compile_Continue_node(cc, node)
      [] node.k = "Break" -> compile_Break_node(cc, node)
      [] node.k = "EmptyStatement" -> [cc EXCEPT !.ret = FALSE]
      [] OTHER -> Raise(cc)

\* one iteration of the loop of AstCompiler.compile
CompileNode(cc, node) == HandleError(compile_statement(cc, node))

(***************************************************************************)
(* The link pass of pcc().                                                 *)
(***************************************************************************)
\* ARG_REGS: the argument registers v1..v3
NumArgRegs == 3

\* the names of the user-defined functions other than main, in dict order
UserDefNames(functions) ==
    LET names == [i \in DOMAIN SelectSeq(functions, LAMBDA f : ~f.is_vm) |->
                     SelectSeq(functions, LAMBDA f : ~f.is_vm)[i].func_name]
    IN  SelectSeq(names, LAMBDA n : n # "main")

HasCaller(functions, name) == functions[FuncIdx(functions, name)].caller # {}

\* the while loop that drops non-called functions ends
DropLoopDone(functions, userdef_functions) ==
    \/ Len(userdef_functions) = 0
    \/ \A i \in DOMAIN userdef_functions : HasCaller(functions, userdef_functions[i])

func_names_dropped(functions, userdef_functions) ==
    {userdef_functions[i] : i \in {j \in DOMAIN userdef_functions :
                                        ~HasCaller(functions, userdef_functions[j])}}

functions_passed(functions, userdef_functions) ==
    SelectSeq(userdef_functions, LAMBDA n : HasCaller(functions, n))

\* the loop as it would be if the caller sets were left as they are
KeepCallers(functions, userdef_functions) == functions

\* function.caller -= func_names_dropped for every function that passed
DropCallers(functions, userdef_functions) ==
    [i \in DOMAIN functions |->
        IF /\ \E j \in DOMAIN userdef_functions : userdef_functions[j] = functions[i].func_name
           /\ functions[i].caller # {}
        THEN [functions[i] EXCEPT !.caller =
                  @ \ func_names_dropped(functions, userdef_functions)]
        ELSE functions[i]]

RECURSIVE DropLoop(_, _)
\* the whole loop: the functions and the names retained when it ends
DropLoop(functions, userdef_functions) ==
    IF DropLoopDone(functions, userdef_functions)
    THEN [functions |-> functions, userdef_functions |-> userdef_functions]
    ELSE DropLoop(DropCallers(functions, userdef_functions),
                  functions_passed(functions, userdef_functions))

RECURSIVE EmDropLoop(_, _, _)
\* astcc.em_instrs.drop_caller(func_names_dropped) at the end of every
\* iteration of the loop: the helper routines retained when it ends
EmDropLoop(instr_funcs, functions, userdef_functions) ==
    IF DropLoopDone(functions, userdef_functions) THEN instr_funcs
    ELSE EmDropLoop(drop_caller(instr_funcs, func_names_dropped(functions, userdef_functions)),
                    DropCallers(functions, userdef_functions),
                    functions_passed(functions, userdef_functions))

\* the check of the retained functions and of main: log.error of the
\* decl_node of a function without implementation, then log.error of a
\* PccError without node if main() is missing, which is printed and counted
LinkErrors(cc, userdef_functions) ==
    IF \E i \in DOMAIN userdef_functions : ~Func(cc, userdef_functions[i]).impl_node
    THEN LogError(cc)
    ELSE IF "main" \in FuncNames(cc.functions) /\ Func(cc, "main").impl_node THEN cc
    ELSE [cc EXCEPT !.error_count = @ + 1]

\* tags: use count 1 for the entry tag of every retained user function
SeedTags(functions, userdef_functions) ==
    [t \in {functions[FuncIdx(functions, userdef_functions[i])].asm_tag :
                i \in DOMAIN userdef_functions} |-> 1]

\* userdef_asm_bufs, by the name of the function that owns the buffer
userdef_asm_bufs(userdef_functions) == <<"main">> \o userdef_functions

\* AsmBuffer.replace_instruction
replace_instruction(buf, find_instr, replace_instr) ==
    [i \in DOMAIN buf |->
        IF IsCmd(buf[i]) /\ buf[i].op = find_instr
        THEN [buf[i] EXCEPT !.op = replace_instr] ELSE buf[i]]

\* all_asm_bufs as it would be if main() were called from the init segment:
\* CALL main; HALT after the init code, and main a segment with its own TAG
CallMainBufs(cc, userdef_functions) ==
    <<cc.init_asm_buf \o <<Stmt("CALL", <<AsmTag("main", 0)>>), Stmt("HALT", <<>>)>>,
      <<Stmt("TAG", <<AsmTag("main", 0)>>)>> \o Func(cc, "main").asm_buf>>
    \o [i \in DOMAIN userdef_functions |-> Func(cc, userdef_functions[i]).asm_buf]
    \o (IF cc.use_cis THEN em_asm_bufs(cc.em_instrs) ELSE <<>>)

\* the merge of main() into the init segment, then the helper routines:
\* all_asm_bufs
MergeBufs(cc, userdef_functions) ==
    <<cc.init_asm_buf \o replace_instruction(Func(cc, "main").asm_buf, "RET", "HALT")>>
    \o [i \in DOMAIN userdef_functions |-> Func(cc, userdef_functions[i]).asm_buf]
    \o (IF cc.use_cis THEN em_asm_bufs(cc.em_instrs) ELSE <<>>)

TagStmts(buf) == SelectSeq(buf, IsTag)

\* AsmBuffer.bind_tags: the bindings it makes; a later bind() of the same
\* AsmTag replaces an earlier one
RECURSIVE BindSeq(_, _, _)
BindSeq(tags, tag_id_offset, bound) ==
    IF tags = <<>> THEN bound
    ELSE BindSeq(Tail(tags), tag_id_offset + 1,
                 (Head(tags).args[1] :> tag_id_offset) @@ bound)

bind_tags(buf, tag_id_offset, bound) == BindSeq(TagStmts(buf), tag_id_offset, bound)

\* the first tag label of the first buffer
FirstTagBase == 0

\* tag_base as it would be if it were never advanced
SameTagBase(tag_base, n_tags) == tag_base

\* tag_base as it would be if the quotient were rounded up
CeilTagBase(tag_base, n_tags) == ((tag_base + n_tags + 10 + 9) \div 10) * 10

\* tag_base after a buffer with n_tags tags
NextTagBase(tag_base, n_tags) == ((tag_base + n_tags + 10) \div 10) * 10

\* the tag_base of every buffer of all_asm_bufs
RECURSIVE TagBases(_, _)
TagBases(bufs, tag_base) ==
    IF bufs = <<>> THEN <<>>
    ELSE <<tag_base>> \o
         TagBases(Tail(bufs), NextTagBase(tag_base, Len(TagStmts(Head(bufs)))))

RECURSIVE BindAllTags(_, _, _)
BindAllTags(bufs, bases, bound) ==
    IF bufs = <<>> THEN bound
    ELSE BindAllTags(Tail(bufs), Tail(bases), bind_tags(Head(bufs), Head(bases), bound))

RECURSIVE SumLen(_)
SumLen(seqs) == IF seqs = <<>> THEN 0 ELSE Len(Head(seqs)) + SumLen(Tail(seqs))

\* tag_count: the TAG statements of all buffers
TagCount(bufs) == SumLen([i \in DOMAIN bufs |-> TagStmts(bufs[i])])

RECURSIVE Flatten(_)
\* the concatenation of the sequences, the first half and then the rest,
\* which keeps the recursion shallow
Flatten(seqs) ==
    IF seqs = <<>> THEN <<>>
    ELSE IF Len(seqs) = 1 THEN Head(seqs)
    ELSE Flatten(SubSeq(seqs, 1, Len(seqs) \div 2))
         \o Flatten(SubSeq(seqs, Len(seqs) \div 2 + 1, Len(seqs)))

\* the operands of the commands of a buffer, in order
Operands(buf) == Flatten([i \in DOMAIN buf |-> IF IsCmd(buf[i]) THEN buf[i].args ELSE <<>>])

\* an insertion-ordered dict used as a set: the keys in first-insertion order
OrderedSet(items, acc) ==
    LET first == SelectSeq([i \in DOMAIN items |-> i],
                          LAMBDA i : /\ \A j \in DOMAIN acc : acc[j] # items[i]
                                     /\ \A j \in 1..(i - 1) : items[j] # items[i])
    IN  acc \o [k \in DOMAIN first |-> items[first[k]]]

\* AsmBuffer.collect_vm_variables over all buffers: global_asm_vars
global_asm_vars(bufs) ==
    OrderedSet(SelectSeq(Operands(Flatten(bufs)),
                         LAMBDA a : a.kind = "var" /\ a.fn = ""), <<>>)

local_asm_vars(bufs) ==
    OrderedSet(SelectSeq(Operands(Flatten(bufs)),
                         LAMBDA a : a.kind = "var" /\ a.fn # ""), <<>>)

\* all_asm_vars as it would be if the local variables came first
all_asm_vars_locals_first(bufs) == local_asm_vars(bufs) \o global_asm_vars(bufs)

all_asm_vars(bufs) == global_asm_vars(bufs) \o local_asm_vars(bufs)

\* var_count as it would start if SCR0 were not counted
FirstVarNrAtArgs == NumArgRegs

\* var_count starts after SCR0 and the argument registers
FirstVarNr == 1 + NumArgRegs

\* asm_var.bind(var_count) for every variable of all_asm_vars
BindVars(vars) == [v \in {vars[i] : i \in DOMAIN vars} |->
                      FirstVarNr + (CHOOSE i \in DOMAIN vars : vars[i] = v) - 1]

(***************************************************************************)
(* Rendering: AsmTag.__str__, AsmVar.__str__, format_statement.            *)
(* A rendered operand is the text it prints: a prefix and a number.        *)
(***************************************************************************)
Text(prefix, n) == [prefix |-> prefix, n |-> n]

BlankLine == [op |-> "", args |-> <<>>]

\* the tags of the operands and TAG statements, in the order str() meets them
TagsInOrder(lines) ==
    SelectSeq(Flatten([i \in DOMAIN lines |-> lines[i].args]), LAMBDA a : a.kind = "tag")

\* the AsmTag objects that get an unbound_id, in the order they get it
UnboundTags(lines, tag_ids) ==
    OrderedSet(SelectSeq(TagsInOrder(lines), LAMBDA t : t \notin DOMAIN tag_ids), <<>>)

\* str(arg): counter is AsmTag._unbound_counter before the rendering
StrOperand(a, tag_ids, var_ids, unbound, counter) ==
    IF a.kind = "tag"
    THEN IF a \in DOMAIN tag_ids THEN Text("", tag_ids[a])
         ELSE Text("<UNBOUND_LABEL_>",
                   counter + (CHOOSE i \in DOMAIN unbound : unbound[i] = a))
    ELSE IF a.kind = "var" THEN Text("v", var_ids[a])
    ELSE Text(a.name, a.n)

format_statement(s, tag_ids, var_ids, unbound, counter) ==
    [op |-> s.op,
     args |-> [i \in DOMAIN s.args |->
                  StrOperand(s.args[i], tag_ids, var_ids, unbound, counter)]]

\* the lines of all buffers, an empty line between two buffers
RECURSIVE JoinBufs(_)
JoinBufs(bufs) ==
    IF bufs = <<>> THEN <<>>
    ELSE IF Len(bufs) = 1 THEN Head(bufs)
    ELSE Head(bufs) \o <<BlankLine>> \o JoinBufs(Tail(bufs))

\* asm_code
AsmCode(bufs, tag_ids, var_ids, counter) ==
    LET lines == JoinBufs(bufs)
        unbound == UnboundTags(lines, tag_ids)
    IN  [i \in DOMAIN lines |-> format_statement(lines[i], tag_ids, var_ids, unbound, counter)]

(***************************************************************************)
(* pcc() as a function of its input, as the steps below compute it.        *)
(***************************************************************************)
RECURSIVE CompileAll(_, _)
\* AstCompiler.compile: the loop over the top-level nodes, the first half of
\* the nodes and then the rest, which keeps the recursion shallow
CompileAll(cc, nodes) ==
    IF nodes = <<>> \/ cc.raised THEN cc
    ELSE IF Len(nodes) = 1 THEN CompileNode(cc, Head(nodes))
    ELSE CompileAll(CompileAll(cc, SubSeq(nodes, 1, Len(nodes) \div 2)),
                    SubSeq(nodes, Len(nodes) \div 2 + 1, Len(nodes)))

SetBuf(functions, name, buf) ==
    [functions EXCEPT ![FuncIdx(functions, name)].asm_buf = buf]

\* asm_buf.drop_unused_tags(tags.copy()) on the buffer of one function
DropTagsOf(functions, userdef_functions, name) ==
    SetBuf(functions, name,
           drop_unused_tags(functions[FuncIdx(functions, name)].asm_buf,
                            SeedTags(functions, userdef_functions)))

\* asm_buf.reduce() on the buffer of one function
ReduceOf(functions, name) ==
    SetBuf(functions, name, reduce(functions[FuncIdx(functions, name)].asm_buf))

\* one iteration of the loop over userdef_asm_bufs, after drop_unused_tags (f1)
ReduceIf(f1, name, do_reduce) == IF do_reduce THEN ReduceOf(f1, name) ELSE f1

RECURSIVE TagsAndReduce(_, _, _, _)
\* the loop over userdef_asm_bufs
TagsAndReduce(functions, userdef_functions, names, do_reduce) ==
    IF names = <<>> THEN functions
    ELSE TagsAndReduce(ReduceIf(DropTagsOf(functions, userdef_functions, Head(names)),
                                Head(names), do_reduce),
                       userdef_functions, Tail(names), do_reduce)

\* pcc() returns None
NoResult ==
    [ok |-> FALSE, var_count |-> 0, tag_count |-> 0, asm_code |-> <<>>, unbound |-> 0,
     crashed |-> ""]

\* pcc() does not return: the exception of the logger call propagates
Traceback(cc) == [NoResult EXCEPT !.crashed = cc.crashed]

\* the VM limits main() prints the counts against
MaxVars == 150

MaxTags == 50

\* a pcc() that returns no result when a count is above its VM limit
RenderedWithinLimits(bufs, tag_ids, vars, counter) ==
    IF FirstVarNr + Len(vars) > MaxVars \/ TagCount(bufs) > MaxTags
    THEN NoResult
    ELSE [ok |-> TRUE,
          var_count |-> FirstVarNr + Len(vars),
          tag_count |-> TagCount(bufs),
          asm_code |-> AsmCode(bufs, tag_ids, BindVars(vars), counter),
          unbound |-> Len(UnboundTags(JoinBufs(bufs), tag_ids)),
          crashed |-> ""]

\* PccResult(var_count, tag_count, asm_code) with the bindings made; unbound
\* is the number of unbound labels the rendering numbered
Rendered(bufs, tag_ids, vars, counter) ==
    [ok |-> TRUE,
     var_count |-> FirstVarNr + Len(vars),
     tag_count |-> TagCount(bufs),
     asm_code |-> AsmCode(bufs, tag_ids, BindVars(vars), counter),
     unbound |-> Len(UnboundTags(JoinBufs(bufs), tag_ids)),
     crashed |-> ""]

PccResult(bufs, counter) ==
    Rendered(bufs, BindAllTags(bufs, TagBases(bufs, FirstTagBase), <<>>),
             all_asm_vars(bufs), counter)

\* main(): the exit status for what pcc() returned
Main(cc_result) == IF ~cc_result.ok THEN -1 ELSE 0

\* pcc() after the check of the definitions (c1), d being what the drop
\* loop left
LinkEnd(c1, d, do_reduce, counter) ==
    IF c1.raised THEN Traceback(c1)
    ELSE IF c1.error_count # 0 THEN NoResult
    ELSE PccResult(MergeBufs([c1 EXCEPT !.functions =
                                  TagsAndReduce(d.functions, d.userdef_functions,
                                                userdef_asm_bufs(d.userdef_functions),
                                                do_reduce)],
                             d.userdef_functions),
                   counter)

\* pcc() from the check of the definitions on
Link(cc, d, do_reduce, counter) ==
    LinkEnd(LinkErrors([cc EXCEPT !.functions = d.functions], d.userdef_functions),
            d, do_reduce, counter)

\* pcc() after AstCompiler.compile
AfterCompile(cc, do_reduce, counter) ==
    IF cc.raised THEN Traceback(cc)
    ELSE IF cc.error_count # 0 THEN NoResult
    ELSE Link([cc EXCEPT !.em_instrs =
                  IF cc.use_cis
                  THEN EmDropLoop(@, cc.functions, UserDefNames(cc.functions)) ELSE @],
              DropLoop(cc.functions, UserDefNames(cc.functions)), do_reduce, counter)

\* pcc(): None (NoResult) or the PccResult
Pcc(nodes, use_cis, do_reduce, counter) ==
    AfterCompile(CompileAll(NewAstCompiler(use_cis), nodes), do_reduce, counter)

(***************************************************************************)
(* The inputs: C programs with two int globals a and b, the functions      *)
(* void f(void), void g(int p) and main, and at most MaxStmts statements.  *)
(***************************************************************************)
StmtMenu ==
    { FuncCall("f", <<>>),
      FuncCall("g", <<Constant(1)>>),
      For(NoNode, Break),
      If(ID("a"), Assignment("b", Constant(1)), EmptyStatement),
      While(ID("p"), Assignment("a", Constant(0))),
      Decl("t", ID("a")) }

Bodies(n) == [1..n -> StmtMenu]

BodyTriples ==
    UNION { { <<bf, bg, bm>> : bf \in Bodies(n[1]), bg \in Bodies(n[2]), bm \in Bodies(n[3]) } :
            n \in { m \in (0..MaxStmts) \X (0..MaxStmts) \X (0..MaxStmts) :
                        m[1] + m[2] + m[3] <= MaxStmts } }

Params(name) == IF name = "g" THEN <<"p">> ELSE <<>>

\* a translation unit: extern declarations, int globals with the initialiser
\* ginit, prototypes, the definitions of f and g in the given order and, if
\* has_main, main last
Program(externs, globals, ginit, proto, order, f, g, main, has_main, do_reduce) ==
    [externs |-> externs, globals |-> globals, ginit |-> ginit, proto |-> proto,
     order |-> order,
     f |-> f, g |-> g, main |-> main, has_main |-> has_main,
     use_cis |-> TRUE, do_reduce |-> do_reduce]

Sources ==
    { Program(<<>>, go, NoNode, pr, fo, b[1], b[2], b[3], TRUE, dr) :
        go \in {<<"a", "b">>},
        pr \in {<<>>, <<"f">>},
        fo \in {<<"f", "g">>, <<"g", "f">>},
        b \in BodyTriples,
        dr \in BOOLEAN }

\* programs whose main is one call of an extern function
ApiCalls ==
    { FuncCall("exit", <<Constant(0)>>),
      FuncCall("foo", <<>>),
      FuncCall("gpioWrite", <<ID("a"), Assignment("b", Constant(1))>>) }
    \cup { FuncCall("gpioSetMode", <<x, y>>) :
              x \in {Constant(4), Assignment("b", Constant(1))},
              y \in {Constant(n) : n \in 0..8} \cup {ID("a")} }
    \cup { FuncCall("gpioSetPullUpDown", <<x, y>>) :
              x \in {Constant(4), Assignment("b", Constant(1))},
              y \in {Constant(n) : n \in 0..3} \cup {ID("a")} }

\* extern void exit(int); void main(void) { exit(0); }
ExitProgram ==
    Program(<<"exit">>, <<>>, NoNode, <<>>, <<>>, <<>>, <<>>,
            <<FuncCall("exit", <<Constant(0)>>)>>, TRUE, TRUE)

ApiSources ==
    { Program(<<c.name>>, <<"a", "b">>, NoNode, <<>>, <<"f", "g">>, <<>>, <<>>, <<c>>, TRUE, dr) :
        c \in ApiCalls, dr \in BOOLEAN }
    \cup { ExitProgram,
           Program(<<"foo">>, <<>>, NoNode, <<>>, <<>>, <<>>, <<>>, <<>>, TRUE, TRUE) }

\* programs with diagnostics: warnings, a missing main, a missing definition
DiagSources ==
    { Program(<<>>, <<"a", "b">>, NoNode, <<>>, <<"f", "g">>, bf, <<>>, bm, TRUE, TRUE) :
        bf \in {<<>>, <<Return(Constant(1))>>, <<Return(NoNode), Assignment("a", Constant(0))>>},
        bm \in {<<>>, <<Return(NoNode)>>, <<Return(Constant(1))>>, <<FuncCall("f", <<>>)>>,
                <<For(NoNode, Break), Return(NoNode)>>,
                <<Return(NoNode), Assignment("a", Constant(0))>>} }
    \cup { Program(<<>>, <<"a", "b">>, NoNode, <<>>, fo, <<>>, <<>>, <<>>, FALSE, TRUE) :
             fo \in {<<>>, <<"f", "g">>} }
    \cup { Program(<<>>, <<"a", "b">>, NoNode, <<"f">>, <<"g">>, <<>>, <<>>, bm, TRUE, TRUE) :
             bm \in {<<>>, <<FuncCall("f", <<>>)>>} }

\* programs that need one variable or two tags more than main() allows for,
\* and the largest programs that stay within the limits
LargeSources ==
    { Program(<<>>, [i \in 1..n |-> "t" \o ToString(i)], Constant(1),
              <<>>, <<>>, <<>>, <<>>, <<>>, TRUE, TRUE) :
        n \in {MaxVars - FirstVarNr, MaxVars - FirstVarNr + 1} }
    \cup { Program(<<>>, <<>>, NoNode, <<>>, <<>>, <<>>, <<>>,
                   [i \in 1..n |-> For(NoNode, Break)], TRUE, FALSE) :
             n \in {MaxTags \div 2, MaxTags \div 2 + 1} }

\* a = !b;
NotB == Assignment("a", UnaryOp("!", ID("b")))

\* expressions with the operators of UNARY_OP_INSTR and BINARY_OP_INSTR, with
\* an operator outside the tables, and with a call of a void function
OpExprs ==
    { UnaryOp(op, ID("b")) : op \in {"+", "-", "~", "!", "&"} }
    \cup { UnaryOp("-", Constant(1)), UnaryOp("!", Constant(0)) }
    \cup { BinaryOp(op, ID("a"), ID("b")) : op \in {"+", "&&", "||", "<"} }
    \cup { BinaryOp("==", ID("a"), UnaryOp("!", ID("b"))),
           BinaryOp("-", ID("a"), UnaryOp("-", ID("b"))),
           BinaryOp("&", ID("a"), UnaryOp("-", Constant(3))),
           BinaryOp("&&", UnaryOp("!", ID("a")), UnaryOp("!", ID("b"))),
           BinaryOp("+", ID("a"), ID("zz")),
           FuncCall("f", <<>>) }

OpStmts ==
    { Assignment("a", e) : e \in OpExprs }
    \cup { If(UnaryOp("!", ID("a")), Assignment("b", Constant(1)), EmptyStatement),
           While(BinaryOp("<", ID("a"), ID("b")),
                 Assignment("a", BinaryOp("+", ID("a"), Constant(1)))),
           DoWhile(BinaryOp("&&", ID("a"), ID("b")), Assignment("a", UnaryOp("-", ID("a")))),
           For(UnaryOp("!", ID("a")), Assignment("a", UnaryOp("~", ID("b")))) }

\* programs with operators in the initialisers, in f, in g and in main
OpSources ==
    { Program(<<>>, <<"a", "b">>, gi, <<>>, <<"f", "g">>, bf, bg, bm, TRUE, dr) :
        gi \in {NoNode, UnaryOp("!", Constant(0))},
        bf \in {<<>>, <<NotB>>, <<FuncCall("g", <<UnaryOp("!", ID("a"))>>)>>},
        bg \in {<<>>, <<NotB>>, <<Assignment("a", BinaryOp("==", ID("p"), Constant(1)))>>,
                <<FuncCall("f", <<>>), NotB>>},
        bm \in { <<s>> : s \in OpStmts }
               \cup { <<>>, <<FuncCall("f", <<>>)>>, <<FuncCall("g", <<Constant(1)>>)>>,
                      <<NotB, NotB>>, <<FuncCall("f", <<>>), NotB>> },
        dr \in BOOLEAN }

\* loops in loops, jumps out of them, jumps outside of every loop, returns
\* inside loops and errors inside blocks and loops
LoopStmts ==
    { While(ID("a"), Compound(<<DoWhile(ID("b"), If(ID("a"), Continue, Break)), Continue>>)),
      For(ID("a"), While(ID("b"), Break)),
      For(ID("a"), Compound(<<While(ID("b"), Continue), Break>>)),
      DoWhile(ID("a"), Continue),
      DoWhile(ID("a"), Compound(<<For(NoNode, Continue), Break>>)),
      While(ID("a"), Return(NoNode)),
      For(ID("a"), Return(NoNode)),
      DoWhile(ID("a"), Return(NoNode)),
      If(ID("a"), Return(NoNode), Return(NoNode)),
      Break,
      Continue,
      While(ID("zz"), Break),
      While(ID("a"), Assignment("zz", Constant(1))),
      DoWhile(ID("zz"), Break),
      Compound(<<Decl("t", NoNode), Decl("t", NoNode)>>),
      While(ID("a"), Compound(<<Break, Assignment("a", Constant(0))>>)) }

LoopSources ==
    { Program(<<>>, <<"a", "b">>, NoNode, <<>>, <<"f", "g">>, bf, <<>>, bm, TRUE, dr) :
        bf \in {<<>>} \cup { <<s>> : s \in LoopStmts },
        bm \in {<<FuncCall("f", <<>>)>>} \cup { <<s>> : s \in LoopStmts },
        dr \in BOOLEAN }

\* calls of a VM API function whose arguments are expressions and calls
NestedApiSources ==
    { Program(<<"gpioWrite", "gpioRead", "exit">>, <<"a", "b">>, NoNode, <<>>, <<>>,
              <<>>, <<>>, <<FuncCall("gpioWrite", <<x, y>>)>>, TRUE, dr) :
        x \in {ID("a"), Assignment("a", Constant(1)), BinaryOp("+", ID("a"), Constant(1))},
        y \in {Assignment("b", Constant(1)),
               FuncCall("gpioRead", <<Constant(4)>>),
               FuncCall("gpioRead", <<Assignment("b", Constant(2))>>),
               FuncCall("exit", <<Constant(0)>>)},
        dr \in BOOLEAN }

ExtraSources ==
    ApiSources \cup DiagSources \cup LargeSources
    \cup OpSources \cup LoopSources \cup NestedApiSources

BodyOf(src, name) == IF name = "f" THEN src.f ELSE IF name = "g" THEN src.g ELSE src.main

\* the number of arguments vm_api.h declares; foo is not a VM function
ExternArgs(name) ==
    IF name \in {"exit", "gpioRead"} THEN 1 ELSE IF name = "foo" THEN 0 ELSE 2

\* the top-level nodes of the translation unit
Nodes(src) ==
    [i \in DOMAIN src.externs |-> ExternDecl(src.externs[i], ExternArgs(src.externs[i]))]
    \o [i \in DOMAIN src.globals |-> Decl(src.globals[i], src.ginit)]
    \o [i \in DOMAIN src.proto |-> FuncDecl(src.proto[i], Len(Params(src.proto[i])))]
    \o [i \in DOMAIN src.order |->
            FuncDef(src.order[i], Params(src.order[i]), Compound(BodyOf(src, src.order[i])))]
    \o (IF src.has_main THEN <<FuncDef("main", <<>>, Compound(src.main))>> ELSE <<>>)

(***************************************************************************)
(* The VM that runs the helper routines of EmulatedInstrs: the accumulator *)
(* A, the flag register F and the scratch register v0, with the effect the *)
(* comments of the definitions give for each instruction.                  *)
(***************************************************************************)
\* x & y, x & ~y and x | y of two's complement integers
RECURSIVE AndNat(_, _)
AndNat(x, y) ==
    IF x = 0 \/ y = 0 THEN 0
    ELSE (IF x % 2 = 1 /\ y % 2 = 1 THEN 1 ELSE 0) + 2 * AndNat(x \div 2, y \div 2)

RECURSIVE AndNotNat(_, _)
AndNotNat(x, y) ==
    IF x = 0 THEN 0
    ELSE (IF x % 2 = 1 /\ y % 2 = 0 THEN 1 ELSE 0) + 2 * AndNotNat(x \div 2, y \div 2)

RECURSIVE OrNat(_, _)
OrNat(x, y) ==
    IF x = 0 THEN y
    ELSE IF y = 0 THEN x
    ELSE (IF x % 2 = 1 \/ y % 2 = 1 THEN 1 ELSE 0) + 2 * OrNat(x \div 2, y \div 2)

BitOr(x, y) ==
    IF x >= 0 /\ y >= 0 THEN OrNat(x, y)
    ELSE IF x < 0 /\ y < 0 THEN -1 - AndNat(-1 - x, -1 - y)
    ELSE IF x < 0 THEN -1 - AndNotNat(-1 - x, y)
    ELSE -1 - AndNotNat(-1 - y, x)

\* the least 32-bit integer
MinInt == -2147483647 - 1

\* x - y in 32-bit two's complement, wrapping modulo 2^32
Sub32(x, y) ==
    IF x >= 0 /\ y < 0
    THEN IF (x - 2147483647) + (-(y + 1)) >= 0
         THEN MinInt + ((x - 2147483647) + (-(y + 1)))
         ELSE ((x - 2147483647) + (-(y + 1)) + 1) + 2147483647
    ELSE IF x < 0 /\ y >= 0
    THEN IF ((x + 1) + 2147483647) - y >= 0
         THEN MinInt + (((x + 1) + 2147483647) - y)
         ELSE ((((x + 1) + 2147483647) - y) + 1) + 2147483647
    ELSE x - y

\* the 32-bit operand values the helpers are run with
Words == {-2, -1, 0, 1, 2, 2147483647}

\* the values F may hold where the code calls it undefined
FlagValues == {-1, 0, 1}

\* the value of an operand: the scratch register or an immediate
OperandValue(m, arg) == IF arg = SCR0 THEN m.v0 ELSE arg.n

\* the position of TAG tag in the buffer
TagPos(buf, tag) == CHOOSE i \in DOMAIN buf : IsTag(buf[i]) /\ buf[i].args[1] = tag

(***************************************************************************)
(* The state machine: one compilation, step by step, then a second         *)
(* compilation of the same input in the same process.                      *)
(***************************************************************************)
VARIABLES
    source,             \* the input of pcc()
    pc,                 \* where pcc() is
    pos,                \* the next top-level node AstCompiler.compile lowers
    astcc,              \* the AstCompiler
    userdef_functions,  \* names of the user-defined functions still retained
    buf_idx,            \* index into userdef_asm_bufs
    all_asm_bufs,       \* the emitted buffers
    vm_tag_id,          \* AsmTag.vm_tag_id of the bound tags
    vm_var_id,          \* AsmVar.vm_var_id of the bound variables
    result,             \* what pcc() returns
    unbound_counter,    \* AsmTag._unbound_counter, a class attribute
    first_result,       \* the result of the first compilation
    vm,                 \* the VM running an emulated helper
    frames              \* the loops being lowered: the open calls of the loop handlers

vars == <<source, pc, pos, astcc, userdef_functions, buf_idx, all_asm_bufs,
          vm_tag_id, vm_var_id, result, unbound_counter, first_result, vm, frames>>

\* no helper is running
VmIdle == [instr |-> "", ip |-> 0, A |-> 0, F |-> 0, v0 |-> 0, a0 |-> 0, b0 |-> 0]

Init ==
    /\ source \in Sources \cup ExtraSources
    /\ pc = "compile"
    /\ pos = 1
    /\ astcc = NewAstCompiler(source.use_cis)
    /\ userdef_functions = <<>>
    /\ buf_idx = 0
    /\ all_asm_bufs = <<>>
    /\ vm_tag_id = <<>>
    /\ vm_var_id = <<>>
    /\ result = NoResult
    /\ unbound_counter = 0
    /\ first_result = NoResult
    /\ vm = VmIdle
    /\ frames = <<>>

\* AstCompiler.compile lowers the next top-level node
CompileStep ==
    /\ pc = "compile"
    /\ pos <= Len(Nodes(source))
    /\ ~astcc.raised
    /\ astcc' = CompileNode(astcc, Nodes(source)[pos])
    /\ pos' = pos + 1
    /\ UNCHANGED <<source, pc, userdef_functions, buf_idx, all_asm_bufs, vm_tag_id,
                   vm_var_id, result, unbound_counter, first_result, vm, frames>>

\* compile() is left by an exception of the logger, or it returns: pcc()
\* returns None on errors, else collects the functions
CompileEnd ==
    /\ pc = "compile"
    /\ pos > Len(Nodes(source)) \/ astcc.raised
    /\ IF astcc.raised
       THEN pc' = "crashed" /\ UNCHANGED userdef_functions
       ELSE IF astcc.error_count # 0
       THEN pc' = "rejected" /\ UNCHANGED userdef_functions
       ELSE pc' = "drop" /\ userdef_functions' = UserDefNames(astcc.functions)
    /\ UNCHANGED <<source, pos, astcc, buf_idx, all_asm_bufs, vm_tag_id,
                   vm_var_id, result, unbound_counter, first_result, vm, frames>>

\* one iteration of the loop that drops non-called functions
DropPass ==
    /\ pc = "drop"
    /\ ~DropLoopDone(astcc.functions, userdef_functions)
    /\ astcc' = [astcc EXCEPT
                    !.functions = DropCallers(@, userdef_functions),
                    !.em_instrs =
                        IF astcc.use_cis
                        THEN drop_caller(@, func_names_dropped(astcc.functions, userdef_functions))
                        ELSE @]
    /\ userdef_functions' = functions_passed(astcc.functions, userdef_functions)
    /\ UNCHANGED <<source, pc, pos, buf_idx, all_asm_bufs, vm_tag_id,
                   vm_var_id, result, unbound_counter, first_result, vm, frames>>

\* the loop ends; main and the retained functions are checked
CheckDefinitions ==
    /\ pc = "drop"
    /\ DropLoopDone(astcc.functions, userdef_functions)
    /\ astcc' = LinkErrors(astcc, userdef_functions)
    /\ IF astcc'.raised
       THEN pc' = "crashed" /\ UNCHANGED buf_idx
       ELSE IF astcc'.error_count # 0
       THEN pc' = "rejected" /\ UNCHANGED buf_idx
       ELSE pc' = "droptags" /\ buf_idx' = 1
    /\ UNCHANGED <<source, pos, userdef_functions, all_asm_bufs, vm_tag_id,
                   vm_var_id, result, unbound_counter, first_result, vm, frames>>

CurrentBuf == userdef_asm_bufs(userdef_functions)[buf_idx]

NextBuf ==
    IF buf_idx < Len(userdef_asm_bufs(userdef_functions))
    THEN pc' = "droptags" /\ buf_idx' = buf_idx + 1
    ELSE pc' = "merge" /\ buf_idx' = 0

\* asm_buf.drop_unused_tags(tags.copy()) for the next buffer
DropUnusedTags ==
    /\ pc = "droptags"
    /\ astcc' = [astcc EXCEPT !.functions = DropTagsOf(@, userdef_functions, CurrentBuf)]
    /\ IF source.do_reduce THEN pc' = "reduce" /\ UNCHANGED buf_idx ELSE NextBuf
    /\ UNCHANGED <<source, pos, userdef_functions, all_asm_bufs, vm_tag_id,
                   vm_var_id, result, unbound_counter, first_result, vm, frames>>

\* asm_buf.reduce() for the same buffer
Reduce ==
    /\ pc = "reduce"
    /\ astcc' = [astcc EXCEPT !.functions = ReduceOf(@, CurrentBuf)]
    /\ NextBuf
    /\ UNCHANGED <<source, pos, userdef_functions, all_asm_bufs, vm_tag_id,
                   vm_var_id, result, unbound_counter, first_result, vm, frames>>

\* main() is merged into the init segment
Merge ==
    /\ pc = "merge"
    /\ all_asm_bufs' = MergeBufs(astcc, userdef_functions)
    /\ pc' = "bind"
    /\ UNCHANGED <<source, pos, astcc, userdef_functions, buf_idx, vm_tag_id,
                   vm_var_id, result, unbound_counter, first_result, vm, frames>>

\* the tags and variables are bound
Bind ==
    /\ pc = "bind"
    /\ vm_tag_id' = BindAllTags(all_asm_bufs, TagBases(all_asm_bufs, FirstTagBase), <<>>)
    /\ vm_var_id' = BindVars(all_asm_vars(all_asm_bufs))
    /\ pc' = "render"
    /\ UNCHANGED <<source, pos, astcc, userdef_functions, buf_idx, all_asm_bufs,
                   result, unbound_counter, first_result, vm, frames>>

\* the assembly is rendered and pcc() returns
Render ==
    /\ pc = "render"
    /\ result' = PccResult(all_asm_bufs, unbound_counter)
    /\ unbound_counter' = unbound_counter + result'.unbound
    /\ pc' = "done"
    /\ UNCHANGED <<source, pos, astcc, userdef_functions, buf_idx, all_asm_bufs,
                   vm_tag_id, vm_var_id, first_result, vm, frames>>

\* pcc() is called again in the same process with the same arguments
CompileAgain ==
    /\ pc = "done"
    /\ first_result' = result
    /\ result' = Pcc(Nodes(source), source.use_cis, source.do_reduce, unbound_counter)
    /\ unbound_counter' = unbound_counter + result'.unbound
    /\ pc' = "done2"
    /\ UNCHANGED <<source, pos, astcc, userdef_functions, buf_idx, all_asm_bufs,
                   vm_tag_id, vm_var_id, vm, frames>>

Next ==
    \/ CompileStep
    \/ CompileEnd
    \/ DropPass
    \/ CheckDefinitions
    \/ DropUnusedTags
    \/ Reduce
    \/ Merge
    \/ Bind
    \/ Render
    \/ CompileAgain

Spec == Init /\ [][Next]_vars

(***************************************************************************)
(* The VM runs one emulated instruction: CALL has entered the helper with  *)
(* the left operand in A and the right operand in v0 (SCR0).               *)
(***************************************************************************)
IdleSource == Program(<<>>, <<>>, NoNode, <<>>, <<>>, <<>>, <<>>, <<>>, TRUE, TRUE)

InitVM ==
    /\ source = IdleSource
    /\ pc = "vm"
    /\ pos = 1
    /\ astcc = NewAstCompiler(TRUE)
    /\ userdef_functions = <<>>
    /\ buf_idx = 0
    /\ all_asm_bufs = <<>>
    /\ vm_tag_id = <<>>
    /\ vm_var_id = <<>>
    /\ result = NoResult
    /\ unbound_counter = 0
    /\ first_result = NoResult
    /\ vm \in [instr : {"ANDL", "ORL"}, ip : {1}, A : Words, F : FlagValues,
               v0 : Words, a0 : Words, b0 : Words]
    /\ vm.A = vm.a0
    /\ vm.v0 = vm.b0
    /\ frames = <<>>

VmBuf == InstrFunc(vm.instr)

VmAt(instr) == vm.ip \in DOMAIN VmBuf /\ VmBuf[vm.ip].op = instr

VmRest == <<source, pc, pos, astcc, userdef_functions, buf_idx, all_asm_bufs,
            vm_tag_id, vm_var_id, result, unbound_counter, first_result, frames>>

\* TAG: a label, execution goes on
VmTAG ==
    /\ VmAt("TAG")
    /\ vm' = [vm EXCEPT !.ip = @ + 1]
    /\ UNCHANGED VmRest

\* OR x: A := A | x; F := A
VmOR ==
    /\ VmAt("OR")
    /\ vm' = [vm EXCEPT !.A = BitOr(vm.A, OperandValue(vm, VmBuf[vm.ip].args[1])),
                        !.F = BitOr(vm.A, OperandValue(vm, VmBuf[vm.ip].args[1])),
                        !.ip = @ + 1]
    /\ UNCHANGED VmRest

\* LDA x: A := x; F := undef
VmLDA ==
    /\ VmAt("LDA")
    /\ \E flag \in FlagValues :
           vm' = [vm EXCEPT !.A = OperandValue(vm, VmBuf[vm.ip].args[1]),
                            !.F = flag,
                            !.ip = @ + 1]
    /\ UNCHANGED VmRest

\* JZ tag: IF (F == 0) GOTO tag
VmJZ ==
    /\ VmAt("JZ")
    /\ vm' = [vm EXCEPT !.ip = IF vm.F = 0 THEN TagPos(VmBuf, VmBuf[vm.ip].args[1])
                                 ELSE @ + 1]
    /\ UNCHANGED VmRest

\* JNZ tag: IF (F != 0) GOTO tag
VmJNZ ==
    /\ VmAt("JNZ")
    /\ vm' = [vm EXCEPT !.ip = IF vm.F # 0 THEN TagPos(VmBuf, VmBuf[vm.ip].args[1])
                                 ELSE @ + 1]
    /\ UNCHANGED VmRest

\* RET: back to the caller, the result in A
VmRET ==
    /\ VmAt("RET")
    /\ vm' = [vm EXCEPT !.ip = 0]
    /\ UNCHANGED VmRest

\* CMP x: F := A - x
VmCMP ==
    /\ VmAt("CMP")
    /\ vm' = [vm EXCEPT !.F = Sub32(vm.A, OperandValue(vm, VmBuf[vm.ip].args[1])),
                        !.ip = @ + 1]
    /\ UNCHANGED VmRest

\* JP tag: IF (F >= 0) GOTO tag
VmJP ==
    /\ VmAt("JP")
    /\ vm' = [vm EXCEPT !.ip = IF vm.F >= 0 THEN TagPos(VmBuf, VmBuf[vm.ip].args[1])
                                 ELSE @ + 1]
    /\ UNCHANGED VmRest

\* JM tag: IF (F < 0) GOTO tag
VmJM ==
    /\ VmAt("JM")
    /\ vm' = [vm EXCEPT !.ip = IF vm.F < 0 THEN TagPos(VmBuf, VmBuf[vm.ip].args[1])
                                 ELSE @ + 1]
    /\ UNCHANGED VmRest

NextVM ==
    \/ VmTAG
    \/ VmOR
    \/ VmLDA
    \/ VmJZ
    \/ VmJNZ
    \/ VmRET

SpecVM == InitVM /\ [][NextVM]_vars

\* the operand values the relational helpers are run with
CmpWords == {MinInt, -1, 0, 1, 2147483647}

\* the relational helpers, run by the VM on every pair of CmpWords
InitCMP ==
    /\ source = IdleSource
    /\ pc = "vm"
    /\ pos = 1
    /\ astcc = NewAstCompiler(TRUE)
    /\ userdef_functions = <<>>
    /\ buf_idx = 0
    /\ all_asm_bufs = <<>>
    /\ vm_tag_id = <<>>
    /\ vm_var_id = <<>>
    /\ result = NoResult
    /\ unbound_counter = 0
    /\ first_result = NoResult
    /\ vm \in [instr : {"EQ", "NE", "GT", "GE", "LT", "LE"}, ip : {1},
               A : CmpWords, F : FlagValues,
               v0 : CmpWords, a0 : CmpWords, b0 : CmpWords]
    /\ vm.A = vm.a0
    /\ vm.v0 = vm.b0
    /\ frames = <<>>

NextCMP ==
    \/ VmTAG
    \/ VmCMP
    \/ VmLDA
    \/ VmJZ
    \/ VmJNZ
    \/ VmJP
    \/ VmJM
    \/ VmRET

SpecCMP == InitCMP /\ [][NextCMP]_vars

(***************************************************************************)
(* The scope chain on its own: push_scope, bind_symbol and pop_scope in    *)
(* any order, up to MaxDepth open frames.                                  *)
(***************************************************************************)
MaxDepth == 3

\* the symbols that are bound: variables of file scope and of f, functions
ScopeSyms ==
    { VarSym(n, AsmVar(fn, n)) : n \in {"a", "b"}, fn \in {"", "f"} } \cup { FuncSym("a") }

\* except PccError: the exception of the last call has been handled
Caught(cc) == [cc EXCEPT !.raised = FALSE]

InitScope ==
    /\ source = IdleSource
    /\ pc = "scope"
    /\ pos = 1
    /\ astcc = NewAstCompiler(TRUE)
    /\ userdef_functions = <<>>
    /\ buf_idx = 0
    /\ all_asm_bufs = <<>>
    /\ vm_tag_id = <<>>
    /\ vm_var_id = <<>>
    /\ result = NoResult
    /\ unbound_counter = 0
    /\ first_result = NoResult
    /\ vm = VmIdle
    /\ frames = <<>>

PushScope ==
    /\ pc = "scope"
    /\ Len(astcc.scope) < MaxDepth
    /\ astcc' = push_scope(Caught(astcc))
    /\ UNCHANGED <<source, pc, pos, userdef_functions, buf_idx, all_asm_bufs, vm_tag_id,
                   vm_var_id, result, unbound_counter, first_result, vm, frames>>

BindSymbol ==
    /\ pc = "scope"
    /\ \E sym \in ScopeSyms : astcc' = bind_symbol(Caught(astcc), sym)
    /\ UNCHANGED <<source, pc, pos, userdef_functions, buf_idx, all_asm_bufs, vm_tag_id,
                   vm_var_id, result, unbound_counter, first_result, vm, frames>>

PopScope ==
    /\ pc = "scope"
    /\ astcc' = pop_scope(Caught(astcc))
    /\ UNCHANGED <<source, pc, pos, userdef_functions, buf_idx, all_asm_bufs, vm_tag_id,
                   vm_var_id, result, unbound_counter, first_result, vm, frames>>

NextScope == PushScope \/ BindSymbol \/ PopScope

SpecScope == InitScope /\ [][NextScope]_vars

(***************************************************************************)
(* The loop handlers step by step: the body of void f(void) is lowered,    *)
(* and a loop handler is entered, or the innermost one is left, or a       *)
(* continue or a break is lowered.  frames holds the local variables       *)
(* begin_tag, next_tag and end_tag of the handlers that are open.          *)
(***************************************************************************)
\* the most statements the buffer of f gets
MaxLoopCode == 7

\* _compile_FuncDef_node of void f(void) at the start of the body
LoopStart ==
    push_scope([declare_function(NewAstCompiler(TRUE), "f", 0, FALSE)
                    EXCEPT !.functions[1].impl_node = TRUE,
                           !.context_function = "f",
                           !.asm_out = "f"])

InitLoop ==
    /\ source = IdleSource
    /\ pc = "loop"
    /\ pos = 1
    /\ astcc = Out(LoopStart, "TAG", <<AsmTag("f", 0)>>)
    /\ userdef_functions = <<>>
    /\ buf_idx = 0
    /\ all_asm_bufs = <<>>
    /\ vm_tag_id = <<>>
    /\ vm_var_id = <<>>
    /\ result = NoResult
    /\ unbound_counter = 0
    /\ first_result = NoResult
    /\ vm = VmIdle
    /\ frames = <<>>

LoopRest == <<source, pc, pos, userdef_functions, buf_idx, all_asm_bufs, vm_tag_id,
              vm_var_id, result, unbound_counter, first_result, vm>>

\* the handlers can be entered: none is open beyond MaxDepth, and the buffer
\* has room
CanLower ==
    /\ pc = "loop"
    /\ Len(Func(astcc, "f").asm_buf) < MaxLoopCode

\* _compile_While_node of while (1) up to the statement
EnterWhile ==
    /\ CanLower
    /\ Len(frames) < MaxDepth
    /\ astcc' = CondJump(compile_expression(
                              Out(push_loop_tags(TakeTag(TakeTag(Caught(astcc))),
                                                 NextTag(astcc), NextTag(TakeTag(astcc))),
                                  "TAG", <<NextTag(astcc)>>),
                              Constant(1)),
                          "JZ", NextTag(TakeTag(astcc)))
    /\ frames' = Append(frames, [kind |-> "While", begin_tag |-> NextTag(astcc),
                                 next_tag |-> NoTag, end_tag |-> NextTag(TakeTag(astcc))])
    /\ UNCHANGED LoopRest

\* _compile_DoWhile_node up to the statement
EnterDoWhile ==
    /\ CanLower
    /\ Len(frames) < MaxDepth
    /\ astcc' = Out(push_loop_tags(TakeTag(TakeTag(Caught(astcc))),
                                   NextTag(astcc), NextTag(TakeTag(astcc))),
                    "TAG", <<NextTag(astcc)>>)
    /\ frames' = Append(frames, [kind |-> "DoWhile", begin_tag |-> NextTag(astcc),
                                 next_tag |-> NoTag, end_tag |-> NextTag(TakeTag(astcc))])
    /\ UNCHANGED LoopRest

\* _compile_For_node of for (;;) up to the statement
EnterFor ==
    /\ CanLower
    /\ Len(frames) < MaxDepth
    /\ astcc' = Out(push_loop_tags(TakeTag(TakeTag(TakeTag(Caught(astcc)))),
                                   NextTag(TakeTag(astcc)),
                                   NextTag(TakeTag(TakeTag(astcc)))),
                    "TAG", <<NextTag(astcc)>>)
    /\ frames' = Append(frames, [kind |-> "For", begin_tag |-> NextTag(astcc),
                                 next_tag |-> NextTag(TakeTag(astcc)),
                                 end_tag |-> NextTag(TakeTag(TakeTag(astcc)))])
    /\ UNCHANGED LoopRest

\* the statement of the innermost loop has been lowered: the rest of its
\* handler, with the finally clause; do ... while (1) for a do-while
LeaveLoop ==
    /\ pc = "loop"
    /\ frames # <<>>
    /\ LET top == frames[Len(frames)]
       IN  astcc' =
               IF top.kind = "While"
               THEN LoopEnd(Caught(astcc), <<Stmt("JMP", <<top.begin_tag>>),
                                             Stmt("TAG", <<top.end_tag>>)>>)
               ELSE IF top.kind = "For"
               THEN LoopEnd(Caught(astcc), <<Stmt("TAG", <<top.next_tag>>),
                                             Stmt("JMP", <<top.begin_tag>>),
                                             Stmt("TAG", <<top.end_tag>>)>>)
               ELSE DoWhileCond(Caught(astcc), DoWhile(Constant(1), EmptyStatement),
                                top.begin_tag, top.end_tag)
    /\ frames' = SubSeq(frames, 1, Len(frames) - 1)
    /\ UNCHANGED LoopRest

\* continue; is lowered
LowerContinue ==
    /\ CanLower
    /\ astcc' = compile_Continue_node(Caught(astcc), Continue)
    /\ UNCHANGED <<LoopRest, frames>>

\* break; is lowered
LowerBreak ==
    /\ CanLower
    /\ astcc' = compile_Break_node(Caught(astcc), Break)
    /\ UNCHANGED <<LoopRest, frames>>

NextLoop ==
    \/ EnterWhile
    \/ EnterDoWhile
    \/ EnterFor
    \/ LeaveLoop
    \/ LowerContinue
    \/ LowerBreak

SpecLoop == InitLoop /\ [][NextLoop]_vars

(***************************************************************************)
(* The loop that drops non-called functions on its own: the functions f, g *)
(* and h with any caller sets the lowering can leave behind, that is any   *)
(* sets of the names of main and of the other functions.                   *)
(***************************************************************************)
DropNames == <<"f", "g", "h">>

\* the compiler after AstCompiler.compile: main and the functions of
\* DropNames are defined, callers[i] has called DropNames[i]
Lowered(callers) ==
    [NewAstCompiler(TRUE) EXCEPT
        !.functions =
            [i \in DOMAIN DropNames |->
                [UserDefFunction(DropNames[i], 0) EXCEPT !.impl_node = TRUE,
                                                         !.caller = callers[i]]]
            \o <<[UserDefFunction("main", 0) EXCEPT !.impl_node = TRUE]>>]

InitDrop ==
    /\ source = IdleSource
    /\ pc = "drop"
    /\ pos = 1
    /\ \E callers \in [DOMAIN DropNames -> SUBSET ({"main"} \cup Range(DropNames))] :
           /\ \A i \in DOMAIN DropNames : DropNames[i] \notin callers[i]
           /\ astcc = Lowered(callers)
    /\ userdef_functions = UserDefNames(astcc.functions)
    /\ buf_idx = 0
    /\ all_asm_bufs = <<>>
    /\ vm_tag_id = <<>>
    /\ vm_var_id = <<>>
    /\ result = NoResult
    /\ unbound_counter = 0
    /\ first_result = NoResult
    /\ vm = VmIdle
    /\ frames = <<>>

\* the loop is left, by its condition or by break
DropEnd ==
    /\ pc = "drop"
    /\ DropLoopDone(astcc.functions, userdef_functions)
    /\ pc' = "dropped"
    /\ UNCHANGED <<source, pos, astcc, userdef_functions, buf_idx, all_asm_bufs, vm_tag_id,
                   vm_var_id, result, unbound_counter, first_result, vm, frames>>

NextDrop == DropPass \/ DropEnd

SpecDrop == InitDrop /\ [][NextDrop]_vars

\* pcc() is one thread that runs on: an iteration that can be taken is taken
SpecDropFair == SpecDrop /\ WF_vars(NextDrop)

(***************************************************************************)
(* The properties.                                                         *)
(***************************************************************************)
\* pcc() has bound the tags and variables of the emitted buffers
Linked == pc \in {"render", "done"}

\* the tags that are the operand of a branch instruction of the buffers
BranchTags(bufs) == {s.args[1] : s \in {t \in Range(Flatten(bufs)) : IsBranch(t)}}

\* the tags that have a TAG statement in the buffers
PlacedTags(bufs) == {s.args[1] : s \in {t \in Range(Flatten(bufs)) : IsTag(t)}}

\* the symbolic variables that are operands in the buffers
UsedVars(bufs) == {a \in Range(Operands(Flatten(bufs))) : a.kind = "var"}

\* C1: for every accepted program compiled with the reducer enabled, every
\* tag that is the operand of a CALL/JMP/JNZ/JZ/JP/JM of the emitted buffers
\* still has its TAG statement in an emitted buffer and is bound to an
\* integer when the assembly is rendered.
C1_BranchTagsBound ==
    (Linked /\ source.do_reduce) =>
        /\ BranchTags(all_asm_bufs) \subseteq PlacedTags(all_asm_bufs)
        /\ BranchTags(all_asm_bufs) \subseteq DOMAIN vm_tag_id

\* C2: after the link pass every bound tag, in every emitted buffer
\* including the init/main segment, has an integer value of at least 10.
C2_TagsAtLeastTen ==
    Linked => \A t \in DOMAIN vm_tag_id : vm_tag_id[t] >= 10

C4_UserVarsAboveReserved ==
    Linked =>
        /\ UsedVars(all_asm_bufs) \subseteq DOMAIN vm_var_id
        /\ \A v \in UsedVars(all_asm_bufs) : vm_var_id[v] >= 4

\* a global, a local and a function argument have been bound
C4_Witness ==
    /\ pc = "done"
    /\ AsmVar("", "a") \in UsedVars(all_asm_bufs)
    /\ AsmVar("main", "t") \in UsedVars(all_asm_bufs)
    /\ ArgVar("g", 1) \in UsedVars(all_asm_bufs)

\* the user functions a function calls, read off its body
Callees(src, name) == {s.name : s \in {t \in Range(BodyOf(src, name)) : t.k = "FuncCall"}}

CallStep(src, S) == S \cup UNION {Callees(src, n) : n \in S}

\* the user functions main reaches through a chain of calls
Reachable(src) == CallStep(src, CallStep(src, CallStep(src, {"main"})))

\* C5: a user function other than main is retained (its buffer is emitted)
\* if and only if it is reachable from main through a chain of user-function
\* calls, and each retained function is emitted exactly once.
C5_RetainedIffReachable ==
    /\ pc \in {"droptags", "reduce", "merge", "bind", "render", "done"} =>
           /\ Range(userdef_functions) = Reachable(source) \ {"main"}
           /\ Cardinality(Range(userdef_functions)) = Len(userdef_functions)
    /\ Linked => Len(all_asm_bufs) = 1 + Len(userdef_functions)

\* C6: AsmBuffer.reduce() is idempotent: applied twice to a non-empty buffer
\* it yields the same statement sequence as applied once.
C6_ReduceIdempotent ==
    pc = "reduce" =>
        reduce(reduce(Func(astcc, CurrentBuf).asm_buf)) = reduce(Func(astcc, CurrentBuf).asm_buf)

\* the buffers of main and of the retained user functions
RetainedBufs(cc, names) ==
    [i \in DOMAIN userdef_asm_bufs(names) |-> Func(cc, userdef_asm_bufs(names)[i]).asm_buf]

\* the entry tags of the retained user functions: the seeds of the link pass
EntryTags(cc, names) == {Func(cc, names[i]).asm_tag : i \in DOMAIN names}

\* a statement drop_unused_tags is to keep: not a TAG, or a TAG with a seed
\* or with a branch use in its own buffer
Kept(s, buf, seeds) == ~IsTag(s) \/ s.args[1] \in seeds \/ s.args[1] \in BranchTags(<<buf>>)

\* what C7 says of one call: old and new are the buffer before and after
DropIsExact(old, new, bufs, seeds) ==
    /\ \A i \in DOMAIN old :
           (IsTag(old[i]) /\ old[i].args[1] \in BranchTags(bufs))
           => \E j \in DOMAIN new : new[j] = old[i]
    /\ new = SelectSeq(old, LAMBDA s : Kept(s, old, seeds))

\* C7: with the seeding of the link pass (use count 1 for the entry tag of
\* every retained user function) drop_unused_tags never deletes a TAG
\* statement whose tag is the operand of a branch instruction of any emitted
\* buffer; it deletes exactly the TAG statements whose tag has no seed and
\* no branch use in its own buffer.
C7_DropKeepsUsedTags ==
    [][pc = "droptags" =>
           DropIsExact(Func(astcc, CurrentBuf).asm_buf,
                       Func(astcc', CurrentBuf).asm_buf,
                       RetainedBufs(astcc, userdef_functions),
                       EntryTags(astcc, userdef_functions))]_vars

\* drop_unused_tags has run on the buffer of f, which main calls: the entry
\* tag, used in no branch of f, is kept and the unused tag of the loop is gone
C7_Witness ==
    /\ pc = "reduce"
    /\ CurrentBuf = "f"
    /\ \E s \in Range(source.f) : s.k = "For"
    /\ Func(astcc, "f").asm_tag \in BranchTags(<<Func(astcc, "main").asm_buf>>)
    /\ Func(astcc, "f").asm_tag \notin BranchTags(<<Func(astcc, "f").asm_buf>>)
    /\ Func(astcc, "f").asm_tag \in PlacedTags(<<Func(astcc, "f").asm_buf>>)
    /\ Cardinality(PlacedTags(<<Func(astcc, "f").asm_buf>>)) < Func(astcc, "f").ntags

\* the input with its two global declarations swapped
SwapGlobals(src) ==
    IF Len(src.globals) < 2 THEN src
    ELSE [src EXCEPT !.globals = <<@[2], @[1]>> \o SubSeq(@, 3, Len(@))]

\* the input with the definitions of f and g swapped
SwapFunctions(src) ==
    IF Len(src.order) < 2 THEN src
    ELSE [src EXCEPT !.order = <<src.order[2], src.order[1]>>]

\* the assembly text of the first compilation of an input
AsmText(src) == Pcc(Nodes(src), src.use_cis, src.do_reduce, 0).asm_code

C9_Deterministic ==
    pc = "done2" =>
        /\ result.ok = first_result.ok
        /\ result.asm_code = first_result.asm_code
        /\ result.var_count = first_result.var_count
        /\ result.tag_count = first_result.tag_count

\* the helper has returned
Returned == vm.instr # "" /\ vm.ip = 0

\* C10: run with the left operand in A and the right operand in SCR0, ANDL
\* returns A = 1 if both operands are non-zero and A = 0 otherwise, ORL
\* returns A = 1 if at least one operand is non-zero and A = 0 otherwise.
C10_LogicalHelpers ==
    Returned =>
        vm.A = IF vm.instr = "ANDL"
               THEN (IF vm.a0 # 0 /\ vm.b0 # 0 THEN 1 ELSE 0)
               ELSE (IF vm.a0 # 0 \/ vm.b0 # 0 THEN 1 ELSE 0)

\* ANDL has returned 1 for two non-zero operands that share no bit
C10_Witness == Returned /\ vm.instr = "ANDL" /\ vm.a0 = 2 /\ vm.b0 = 1 /\ vm.A = 1

\* C11: with F := A - SCR0 computed in 32 bits, wrapping, each relational
\* helper returns A = 1 exactly when the C relation between the signed values
\* of its left operand and its right operand holds, and A = 0 otherwise.
C11_RelationalHelpers ==
    (Returned /\ vm.instr \in {"EQ", "NE", "GT", "GE", "LT", "LE"}) =>
        vm.A = IF CASE vm.instr = "EQ" -> vm.a0 = vm.b0
                    [] vm.instr = "NE" -> vm.a0 # vm.b0
                    [] vm.instr = "GT" -> vm.a0 > vm.b0
                    [] vm.instr = "GE" -> vm.a0 >= vm.b0
                    [] vm.instr = "LT" -> vm.a0 < vm.b0
                    [] vm.instr = "LE" -> vm.a0 <= vm.b0
               THEN 1 ELSE 0

C13_WarningsNeverFatal ==
    /\ astcc.crashed # "warning"
    /\ (pc \in {"crashed", "rejected"}) => astcc.error_count # 0 \/ astcc.crashed = "error"

\* C14: semantic errors are batched, not fatal: an error raised by a
\* statement or a declaration is logged and counted, compilation goes on
\* with the next sibling (it is never abandoned in the logging of the error),
\* and at the end there is no result if and only if the error count is
\* non-zero.
C14_ErrorsBatched ==
    /\ astcc.crashed # "error"
    /\ (pc \in {"crashed", "rejected"}) => astcc.error_count # 0
    /\ pc = "done" => astcc.error_count = 0

\* the program is one call of gpioSetMode or gpioSetPullUpDown in main
C15_ModeCall ==
    /\ Len(source.main) = 1
    /\ source.main[1].k = "FuncCall"
    /\ source.main[1].name \in {"gpioSetMode", "gpioSetPullUpDown"}

\* C15, the operand table: with the second argument a constant n in 0..7
\* (0..2), the second operand of the emitted MODES (PUD) is the n-th
\* character of "RW540123" ("ODU").
C15_ConstantMapped ==
    (C15_ModeCall /\ pc = "done" /\ source.main[1].args[2].k = "Constant") =>
        LET call == source.main[1]
            n    == call.args[2].value
            line == result.asm_code[Len(all_asm_bufs[1]) - 1]
        IN  /\ result.ok
            /\ call.name = "gpioSetMode" =>
                   /\ line.op = "MODES"
                   /\ n \in 0..7 =>
                          line.args[2] = <<Text("R", 0), Text("W", 0), Text("", 5), Text("", 4),
                                           Text("", 0), Text("", 1), Text("", 2), Text("", 3)>>[n + 1]
            /\ call.name = "gpioSetPullUpDown" =>
                   /\ line.op = "PUD"
                   /\ n \in 0..2 =>
                          line.args[2] = <<Text("O", 0), Text("D", 0), Text("U", 0)>>[n + 1]

\* C15: in classic-instruction-set mode a constant second argument n of
\* gpioSetMode (gpioSetPullUpDown) is emitted as the n-th character of
\* "RW540123" ("ODU"); a second argument that is not a compile-time constant
\* has the call rejected with an error (counted, no result) and no
\* instruction for that call is appended to the function's buffer.
C15_ModeArgument ==
    /\ C15_ConstantMapped
    /\ (C15_ModeCall /\ source.main[1].args[2].k # "Constant") =>
           /\ pc # "done"
           /\ astcc.crashed = ""
           /\ pc = "rejected" => astcc.error_count = 1
           /\ (\E i \in DOMAIN astcc.functions : astcc.functions[i].func_name = "main") =>
                  \A st \in Range(Func(astcc, "main").asm_buf) : st.op = "RET"

\* C15, the buffer alone: a call with a second argument that is not a
\* constant leaves no instruction in the buffer of main
C15_NothingAppended ==
    (C15_ModeCall /\ source.main[1].args[2].k # "Constant" /\ (\E i \in DOMAIN astcc.functions : astcc.functions[i].func_name = "main")) =>
        \A st \in Range(Func(astcc, "main").asm_buf) : st.op = "RET"

\* C16: declaring an extern function whose name is not in the VM-API table
\* is a compile error, whether or not the function is called: no program
\* with such a declaration is compiled to a result.
C16_ExternOutsideTable ==
    (\E i \in DOMAIN source.externs : source.externs[i] \notin DOMAIN VM_FUNCTION_INSTR_CIS) =>
        pc # "done"

\* C17: when the linked program needs more than 150 variables or more than
\* 50 tags the compiler does not refuse: pcc() returns the assembly, with
\* the last variable numbered var_count - 1 > 149 where variables overshoot,
\* together with the overshooting counts, and the exit status of main() is
\* 0; the large programs are never rejected.
C17_OvershootStillEmitted ==
    /\ source \in LargeSources => pc \notin {"rejected", "crashed"}
    /\ (/\ pc = "done"
        /\ \/ FirstVarNr + Len(all_asm_vars(all_asm_bufs)) > MaxVars
           \/ TagCount(all_asm_bufs) > MaxTags) =>
           /\ result.ok
           /\ Main(result) = 0
           /\ result.var_count = FirstVarNr + Len(all_asm_vars(all_asm_bufs))
           /\ result.tag_count = TagCount(all_asm_bufs)
           /\ Len(result.asm_code) >= Len(Flatten(all_asm_bufs))
           /\ result.var_count > MaxVars =>
                  \E i \in DOMAIN result.asm_code :
                      \E j \in DOMAIN result.asm_code[i].args :
                          result.asm_code[i].args[j] = Text("v", result.var_count - 1)

\* a program with more than 150 variables has been compiled and rendered
C17_Witness == pc = "done" /\ result.ok /\ result.var_count > MaxVars

\* a program with more than 50 tags has been compiled and rendered
C17_WitnessTags == pc = "done" /\ result.ok /\ result.tag_count > MaxTags

C19_ReduceKeepsFirst ==
    (pc = "reduce" /\ Func(astcc, CurrentBuf).asm_buf # <<>>) =>
        /\ reduce(Func(astcc, CurrentBuf).asm_buf) # <<>>
        /\ reduce(Func(astcc, CurrentBuf).asm_buf)[1].op = Func(astcc, CurrentBuf).asm_buf[1].op
        /\ IsTag(Func(astcc, CurrentBuf).asm_buf[1]) =>
               reduce(Func(astcc, CurrentBuf).asm_buf)[1] = Func(astcc, CurrentBuf).asm_buf[1]

\* C19, the entry TAG alone: the reduced buffer of a function other than
\* main still begins with the TAG of the function's entry
C19_EntryTagKept ==
    (pc = "reduce" /\ CurrentBuf # "main") =>
        reduce(Func(astcc, CurrentBuf).asm_buf)[1] =
            Stmt("TAG", <<Func(astcc, CurrentBuf).asm_tag>>)

\* C20: whenever reduce() drops a TAG statement, every branch operand that
\* referenced the dropped tag is rewritten in every buffer, CALL
\* instructions of other functions included: once a buffer is reduced, no
\* emitted buffer has a branch to a tag the reduction dropped.
C20_ReplaceTagEverywhere ==
    pc = "reduce" =>
        LET after == ReduceOf(astcc.functions, CurrentBuf)
            dropped == PlacedTags(<<Func(astcc, CurrentBuf).asm_buf>>)
                       \ PlacedTags(<<after[FuncIdx(after, CurrentBuf)].asm_buf>>)
            names == userdef_asm_bufs(userdef_functions)
        IN  \A i \in DOMAIN names :
                BranchTags(<<after[FuncIdx(after, names[i])].asm_buf>>) \cap dropped = {}

\* every JZ and JNZ of the buffer directly follows OR 0
CondJumpsGuarded(buf) ==
    \A j \in DOMAIN buf :
        buf[j].op \in {"JZ", "JNZ"} => j > 1 /\ buf[j - 1] = Stmt("OR", <<Lit(0)>>)

\* C21: in classic mode every JZ/JNZ emitted for the condition of an if,
\* while, do-while or for statement is immediately preceded by OR 0 in the
\* buffer of its function, and this still holds after drop_unused_tags and
\* reduce() have run: at every point of pcc(), the init segment and every
\* function buffer have OR 0 directly before each JZ and JNZ.
C21_OrBeforeCondJump ==
    astcc.use_cis =>
        /\ CondJumpsGuarded(astcc.init_asm_buf)
        /\ \A i \in DOMAIN astcc.functions : CondJumpsGuarded(astcc.functions[i].asm_buf)

\* a reduced function with the conditional jumps of a while, a do-while and
\* an if statement, ready to be merged
C21_Witness ==
    /\ pc = "merge" /\ source.do_reduce /\ astcc.use_cis
    /\ \E i \in DOMAIN astcc.functions :
           /\ \E j \in DOMAIN astcc.functions[i].asm_buf :
                  astcc.functions[i].asm_buf[j].op = "JNZ"
           /\ Cardinality({j \in DOMAIN astcc.functions[i].asm_buf :
                               astcc.functions[i].asm_buf[j].op = "JZ"}) >= 2

RECURSIVE Uses(_, _)
RECURSIVE UsesSeq(_, _)
\* how often the nodes apply an operator whose instruction is in instrs to
\* an operand; a negated literal is a constant, not a use of NEG
UsesSeq(nodes, instrs) ==
    IF nodes = <<>> THEN 0 ELSE Uses(Head(nodes), instrs) + UsesSeq(Tail(nodes), instrs)

Uses(node, instrs) ==
    CASE node.k = "UnaryOp" ->
            IF IsConstant(node) THEN 0
            ELSE (IF node.uop \in DOMAIN UNARY_OP_INSTR /\ UNARY_OP_INSTR[node.uop] \in instrs
                  THEN 1 ELSE 0) + Uses(node.expr, instrs)
      [] node.k = "BinaryOp" ->
            (IF BINARY_OP_INSTR[node.bop] \in instrs THEN 1 ELSE 0)
            + Uses(node.left, instrs) + Uses(node.right, instrs)
      [] node.k \in {"Assignment", "Decl"} -> Uses(node.init, instrs)
      [] node.k = "FuncCall" -> UsesSeq(node.args, instrs)
      [] node.k = "Compound" -> UsesSeq(node.items, instrs)
      [] node.k = "If" ->
            Uses(node.cond, instrs) + Uses(node.iftrue, instrs) + Uses(node.iffalse, instrs)
      [] node.k \in {"While", "DoWhile", "For"} ->
            Uses(node.cond, instrs) + Uses(node.stmt, instrs)
      [] node.k = "Return" -> Uses(node.expr, instrs)
      [] node.k = "FuncDef" -> Uses(node.body, instrs)
      [] OTHER -> 0

\* AstCompiler.compile has lowered every top-level node without an exception
AllCompiled == pc = "compile" /\ pos > Len(Nodes(source)) /\ ~astcc.raised

\* the init segment and the buffers of the functions
CodeBufs(cc) == <<cc.init_asm_buf>> \o [i \in DOMAIN cc.functions |-> cc.functions[i].asm_buf]

\* the number of the statements s in the code buffers
CountStmts(cc, s) == Len(SelectSeq(Flatten(CodeBufs(cc)), LAMBDA t : t = s))

Holders(scope, cname) == {i \in DOMAIN scope : \E s \in scope[i] : s.cname = cname}

\* lookup finds, for every name, the binding of the innermost open frame that
\* holds it, and nothing for a name no open frame holds
LookupInnermost(scope) ==
    \A cname \in {s.cname : s \in ScopeSyms} :
        IF Holders(scope, cname) = {}
        THEN \A kind \in {"var", "func"} : ~HasSymbol(scope, cname, kind)
        ELSE /\ find_symbol(scope, cname).cname = cname
             /\ \E i \in Holders(scope, cname) :
                    /\ \A j \in Holders(scope, cname) : i <= j
                    /\ find_symbol(scope, cname) \in scope[i]
                    /\ \A kind \in {"var", "func"} :
                           HasSymbol(scope, cname, kind)
                               <=> find_symbol(scope, cname).kind = kind

\* bind_symbol fails exactly when the innermost frame holds the name and then
\* changes no frame; otherwise it inserts into the innermost frame only
BindInnermost(cc, c1, sym) ==
    /\ c1.raised <=> \E s \in cc.scope[1] : s.cname = sym.cname
    /\ c1.raised => c1.scope = cc.scope
    /\ ~c1.raised =>
           /\ Len(c1.scope) = Len(cc.scope)
           /\ c1.scope[1] = cc.scope[1] \cup {sym}
           /\ \A j \in 2..Len(cc.scope) : c1.scope[j] = cc.scope[j]

\* after pop_scope the bindings of the popped frame are gone: what is
\* visible is what the remaining frames hold
PoppedInvisible(cc, c1) ==
    /\ \A j \in 2..Len(cc.scope) : c1.scope[j - 1] = cc.scope[j]
    /\ \A cname \in {s.cname : s \in ScopeSyms} :
           Holders(c1.scope, cname) = {j - 1 : j \in Holders(cc.scope, cname) \ {1}}

\* C23: bind_symbol fails with a redefinition error exactly when the
\* innermost scope frame already contains the name, and then leaves every
\* frame unchanged; otherwise it inserts into the innermost frame only.
\* After any sequence of push_scope, bind_symbol and pop_scope, lookup of a
\* name returns the binding of the innermost open frame that holds it, and
\* bindings made in a popped frame are no longer visible.
C23_ScopeChain ==
    /\ [](pc = "scope" => LookupInnermost(astcc.scope))
    /\ [][pc = "scope" =>
            /\ \A sym \in ScopeSyms :
                   astcc' = bind_symbol(Caught(astcc), sym)
                       => BindInnermost(astcc, astcc', sym)
            /\ astcc' = pop_scope(Caught(astcc)) => PoppedInvisible(astcc, astcc')]_vars

\* a name bound in the file scope is bound again in an inner frame, and the
\* lookup finds the inner binding
C23_Witness ==
    /\ pc = "scope"
    /\ Len(astcc.scope) = 2
    /\ VarSym("a", AsmVar("f", "a")) \in astcc.scope[1]
    /\ VarSym("a", AsmVar("", "a")) \in astcc.scope[2]
    /\ find_symbol(astcc.scope, "a") = VarSym("a", AsmVar("f", "a"))

\* a binding has been refused: the innermost frame holds the name
C23_WitnessRedefinition ==
    /\ pc = "scope"
    /\ astcc.raised
    /\ Len(astcc.scope) = 2
    /\ \E s \in astcc.scope[1] : s.cname = "b"

\* the buffer of f, the function the loop handlers lower
LoopBuf(cc) == Func(cc, "f").asm_buf

\* what a continue or break has to do, given the loops that are open: a JMP
\* to target if there is one, an error that appends nothing if there is none
JumpsTo(cc, c1, target) ==
    IF frames = <<>>
    THEN c1.raised /\ LoopBuf(c1) = LoopBuf(cc)
    ELSE ~c1.raised /\ LoopBuf(c1) = Append(LoopBuf(cc), Stmt("JMP", <<target>>))

\* C24: for any nesting of while, do-while and for loops, a continue emits a
\* JMP to the begin tag (while, do-while) or next tag (for) of the innermost
\* enclosing loop and a break emits a JMP to that loop's end tag; after an
\* inner loop has been lowered, continue and break again target the
\* enclosing loop; a continue or break outside any loop is an error that
\* appends no instruction.
C24_LoopJumps ==
    [][pc = "loop" =>
          LET top == IF frames = <<>> THEN [kind |-> "", begin_tag |-> NoTag,
                                            next_tag |-> NoTag, end_tag |-> NoTag]
                     ELSE frames[Len(frames)]
          IN  /\ (frames' = frames /\ astcc' = compile_Continue_node(Caught(astcc), Continue))
                    => JumpsTo(astcc, astcc',
                               IF top.kind = "For" THEN top.next_tag ELSE top.begin_tag)
              /\ (frames' = frames /\ astcc' = compile_Break_node(Caught(astcc), Break))
                    => JumpsTo(astcc, astcc', top.end_tag)]_vars

\* inside a for loop an inner loop has been lowered completely, and the
\* continue after it has been lowered as a JMP to the next tag of the for loop
C24_Witness ==
    /\ pc = "loop"
    /\ Len(frames) = 1
    /\ frames[1].kind = "For"
    /\ Len(LoopBuf(astcc)) >= 3
    /\ LoopBuf(astcc)[Len(LoopBuf(astcc))] = Stmt("JMP", <<frames[1].next_tag>>)
    /\ LoopBuf(astcc)[Len(LoopBuf(astcc)) - 1].op = "TAG"
    /\ LoopBuf(astcc)[Len(LoopBuf(astcc)) - 1].args[1].n > frames[1].end_tag.n

\* a break outside of every loop has been refused and nothing was appended
C24_WitnessOutside ==
    /\ pc = "loop"
    /\ frames = <<>>
    /\ astcc.raised
    /\ Len(LoopBuf(astcc)) > 1

\* the positions at which a variable of the wanted kind (global or not)
\* appears for the first time among the operands ops
FirstUses(ops, global) ==
    SelectSeq([i \in DOMAIN ops |-> i],
              LAMBDA i : /\ ops[i].kind = "var"
                         /\ (ops[i].fn = "") = global
                         /\ \A j \in 1..(i - 1) : ops[j] # ops[i])

\* the globals have the slots from v4 on in the order gfirst, the locals and
\* arguments the slots after them in the order lfirst
SlotsInOrder(ops, ids, gfirst, lfirst) ==
    /\ \A k \in DOMAIN gfirst : ids[ops[gfirst[k]]] = 3 + k
    /\ \A k \in DOMAIN lfirst : ids[ops[lfirst[k]]] = 3 + Len(gfirst) + k
    /\ DOMAIN ids = {ops[gfirst[k]] : k \in DOMAIN gfirst}
                        \cup {ops[lfirst[k]] : k \in DOMAIN lfirst}

\* C25: variable slots are assigned contiguously from v4: first every global
\* variable, in order of first appearance as an operand when the emitted
\* buffers are walked in emission order, then every local variable and
\* function argument in order of first appearance; every global has a lower
\* index than every local, and the reported variable count is 4 plus the
\* number of distinct variables referenced in emitted code.
C25_VariableSlots ==
    Linked =>
        /\ SlotsInOrder(Operands(Flatten(all_asm_bufs)), vm_var_id,
                        FirstUses(Operands(Flatten(all_asm_bufs)), TRUE),
                        FirstUses(Operands(Flatten(all_asm_bufs)), FALSE))
        /\ pc = "done" =>
               result.var_count
                   = 4 + Len(FirstUses(Operands(Flatten(all_asm_bufs)), TRUE))
                       + Len(FirstUses(Operands(Flatten(all_asm_bufs)), FALSE))

\* a global, a local and an argument are bound, and the global, which
\* appears after the local in the emitted code, has the lower slot
C25_Witness ==
    /\ pc = "done"
    /\ ArgVar("g", 1) \in DOMAIN vm_var_id
    /\ AsmVar("main", "t") \in DOMAIN vm_var_id
    /\ AsmVar("", "a") \in DOMAIN vm_var_id
    /\ vm_var_id[AsmVar("", "a")] < vm_var_id[AsmVar("main", "t")]
    /\ Operands(Flatten(all_asm_bufs))[1] = AsmVar("main", "t")

\* every retained function has callers, and they are main, the init segment
\* or retained functions
RetainedAreCalled ==
    \A i \in DOMAIN userdef_functions :
        /\ Func(astcc, userdef_functions[i]).caller # {}
        /\ Func(astcc, userdef_functions[i]).caller
               \subseteq {"main", ".init"} \cup Range(userdef_functions)

\* C26: the dead-function elimination loop terminates for every set of user
\* functions and caller sets, and when it ends every retained non-main
\* function has a non-empty caller set whose members are all either main,
\* the init segment, or retained functions.
C26_DropLoopEnds ==
    /\ <>(pc = "dropped")
    /\ [](pc = "dropped" => RetainedAreCalled)

\* the loop has ended after dropping h, then g, which only h called; f,
\* which main calls, is retained
C26_Witness ==
    /\ pc = "dropped"
    /\ userdef_functions = <<"f">>
    /\ Func(astcc, "f").caller = {"main"}
    /\ Func(astcc, "g").caller = {}
    /\ Func(astcc, "h").caller = {}


(***************************************************************************)
(* C27: the end of the emitted functions                                   *)
(***************************************************************************)
\* the operation of the last statement of a buffer ("" for an empty one)
LastOp(buf) == IF buf = <<>> THEN "" ELSE buf[Len(buf)].op

\* C27: for every accepted program the last statement of the buffer of
\* every retained user function is RET or JMP, and the last statement of
\* the init/main segment is HALT or JMP, also when the body has a return
\* inside a while, do-while or for loop.
C27_NoFallOffEnd ==
    (pc = "done" /\ result.ok) =>
        /\ LastOp(all_asm_bufs[1]) \in {"HALT", "JMP"}
        /\ \A i \in DOMAIN userdef_functions :
               LastOp(all_asm_bufs[i + 1]) \in {"RET", "JMP"}


(***************************************************************************)
(* C28: the session state between the top-level nodes                      *)
(***************************************************************************)
\* the session state of a compiler that is between two top-level nodes
Restored(cc) ==
    /\ Len(cc.scope) = 1
    /\ cc.loop_tag_stack = <<>>
    /\ cc.loop_continue_tag = NoTag
    /\ cc.loop_break_tag = NoTag
    /\ cc.context_function = ""
    /\ cc.asm_out = ".init"
    /\ ~cc.in_expression

C28_WitnessLowered ==
    /\ AllCompiled
    /\ \E s \in Range(source.main) : s.k = "While" /\ s.stmt.k = "Compound"


(***************************************************************************)
(* C29: the argument registers of a VM API call                            *)
(***************************************************************************)
\* the statement writes the variable v: STA v, or LD v with a value
WritesVar(s, v) == s.op \in {"STA", "LD"} /\ s.args # <<>> /\ s.args[1] = v

\* the positions of the statements of a buffer that write v
WritesOf(buf, v) == {j \in DOMAIN buf : WritesVar(buf[j], v)}

\* main is one call of a VM API function whose first argument is an
\* assignment or a sum of terms: its value is stored in v1 by the first
\* write of v1 in main
ApiCallStoresFirst ==
    /\ Len(source.main) = 1
    /\ source.main[1].k = "FuncCall"
    /\ source.main[1].name \in DOMAIN VM_FUNCTION_INSTR_CIS
    /\ Len(source.main[1].args) >= 1
    /\ source.main[1].args[1] \in
           {Assignment("a", Constant(1)), BinaryOp("+", ID("a"), Constant(1))}

\* C29: for a call of a VM API function with several non-term arguments,
\* also when a later argument is itself a call of a VM API function with
\* a non-term argument, no statement between the store of the first
\* argument in v1 and the instruction of the call writes v1 again.
C29_ArgRegistersKept ==
    (AllCompiled /\ ApiCallStoresFirst) =>
        Cardinality(WritesOf(Func(astcc, "main").asm_buf, Reg(1))) = 1


(***************************************************************************)
(* C30: the helper routines that are emitted                               *)
(***************************************************************************)
\* the helper routine of the instruction is one of the emitted buffers
HelperEmitted(instr) ==
    \E i \in DOMAIN all_asm_bufs :
        /\ all_asm_bufs[i] # <<>>
        /\ all_asm_bufs[i][1] = Stmt("TAG", <<AsmTag(instr, 0)>>)

\* the init/main segment or the buffer of a retained function calls the
\* helper routine of the instruction
HelperCalled(instr) ==
    \E i \in 1..(Len(userdef_functions) + 1) :
        \E j \in DOMAIN all_asm_bufs[i] :
            all_asm_bufs[i][j] = Stmt("CALL", <<AsmTag(instr, 0)>>)

\* C30: in classic mode the buffer of a helper routine is emitted if and
\* only if the init segment, main or a retained user function calls it; the
\* helper routine that only dropped functions call is not emitted, and
\* every CALL of a helper's entry tag in the emitted buffers has the
\* helper's buffer among them.
C30_HelpersEmittedIffCalled ==
    (Linked /\ source.use_cis) =>
        /\ \A instr \in EMULATED_INSTR : HelperEmitted(instr) <=> HelperCalled(instr)
        /\ \A instr \in EMULATED_INSTR :
               (\E s \in Range(Flatten(all_asm_bufs)) :
                    s = Stmt("CALL", <<AsmTag(instr, 0)>>)) => HelperEmitted(instr)
        /\ Len(all_asm_bufs) =
               1 + Len(userdef_functions)
               + Cardinality({instr \in EMULATED_INSTR : HelperEmitted(instr)})

\* g and then f, which only g calls, are dropped, both use '!'; main uses
\* '&&': the helper of '&&' is emitted, the helper of '!' is not
C30_Witness ==
    /\ pc = "done" /\ result.ok /\ source.use_cis
    /\ source.f = <<NotB>>
    /\ source.g = <<FuncCall("f", <<>>), NotB>>
    /\ source.main = <<Assignment("a", BinaryOp("&&", ID("a"), ID("b")))>>
    /\ userdef_functions = <<>>
    /\ HelperEmitted("ANDL")
    /\ ~HelperEmitted("NOTL")

\* the helper of '!' is called from the init segment and from main
C30_WitnessInit ==
    /\ pc = "done" /\ result.ok /\ source.use_cis
    /\ source.ginit # NoNode
    /\ source.main = <<NotB, NotB>>
    /\ HelperEmitted("NOTL")

====
